---- MODULE Spec2Model ----
(***************************************************************************)
(* A model of the uranus query parser (src/src/query_parser).  A statement *)
(* is a sequence of one-character strings.  A nom parser is a value        *)
(* [op, arg, ps] built with the combinators of the same names as in the    *)
(* code (tag, alt, tuple, map, separated_list1, ...), so that each grammar *)
(* function reads as it does in the source; run(p, input) applies a parser *)
(* to an input and returns the parse result [ok, rest, out, panic].        *)
(***************************************************************************)
EXTENDS Integers, Sequences, FiniteSets, TLC

(***************************************************************************)
(* Characters                                                              *)
(***************************************************************************)
UpperChars == <<"A","B","C","D","E","F","G","H","I","J","K","L","M",
                "N","O","P","Q","R","S","T","U","V","W","X","Y","Z">>

LowerChars == <<"a","b","c","d","e","f","g","h","i","j","k","l","m",
                "n","o","p","q","r","s","t","u","v","w","x","y","z">>

DigitChars == <<"0","1","2","3","4","5","6","7","8","9">>

WhitespaceChars == {" ", "\t", "\n", "\r"}

is_upper(ch) == \E i \in 1..26 : UpperChars[i] = ch

is_alphabetic(ch) == \E i \in 1..26 : UpperChars[i] = ch \/ LowerChars[i] = ch

is_digit(ch) == \E i \in 1..10 : DigitChars[i] = ch

to_digit(ch) == (CHOOSE i \in 1..10 : DigitChars[i] = ch) - 1

to_lowercase(ch) ==
    IF is_upper(ch) THEN LowerChars[CHOOSE i \in 1..26 : UpperChars[i] = ch] ELSE ch

to_uppercase(ch) ==
    IF \E i \in 1..26 : LowerChars[i] = ch
    THEN UpperChars[CHOOSE i \in 1..26 : LowerChars[i] = ch] ELSE ch

DropFirst(s, n) == SubSeq(s, n + 1, Len(s))

(***************************************************************************)
(* Parse results of the nom combinators: IResult<&str, O>                  *)
(***************************************************************************)
POk(rest, out) == [ok |-> TRUE, rest |-> rest, out |-> out, panic |-> FALSE]

PErr == [ok |-> FALSE, rest |-> <<>>, out |-> <<>>, panic |-> FALSE]

\* the parser did not return: a panic unwinds through every combinator
PPanic == [ok |-> FALSE, rest |-> <<>>, out |-> <<>>, panic |-> TRUE]

(***************************************************************************)
(* Keyword literals (module keyword)                                       *)
(***************************************************************************)
SELECT == <<"S","E","L","E","C","T">>
INSERT_INTO == <<"I","N","S","E","R","T"," ","I","N","T","O">>
UPDATE == <<"U","P","D","A","T","E">>
DELETE == <<"D","E","L","E","T","E">>
CREATE_TABLE == <<"C","R","E","A","T","E"," ","T","A","B","L","E">>
ALTER_TABLE == <<"A","L","T","E","R"," ","T","A","B","L","E">>
DROP_TABLE == <<"D","R","O","P"," ","T","A","B","L","E">>
PRIMARY_KEY == <<"P","R","I","M","A","R","Y"," ","K","E","Y">>
FROM == <<"F","R","O","M">>
WHERE == <<"W","H","E","R","E">>
AND == <<"A","N","D">>
VALUES == <<"V","A","L","U","E","S">>
SET == <<"S","E","T">>
ADD == <<"A","D","D">>
DROP == <<"D","R","O","P">>
TRUE_KW == <<"T","R","U","E">>
FALSE_KW == <<"F","A","L","S","E">>
UUID == <<"U","U","I","D">>
INT == <<"I","N","T">>
LONG == <<"L","O","N","G">>
FLOAT == <<"F","L","O","A","T">>
DOUBLE == <<"D","O","U","B","L","E">>
TIMESTAMP == <<"T","I","M","E","S","T","A","M","P">>
TEXT == <<"T","E","X","T">>
BOOL == <<"B","O","O","L">>

(***************************************************************************)
(* AST nodes and values (query.rs)                                         *)
(***************************************************************************)
ValueInteger(n) ==
    [variant |-> "Integer", int |-> n, frac |-> <<>>, neg |-> FALSE, string |-> <<>>]

ValueString(chars) ==
    [variant |-> "String", int |-> 0, frac |-> <<>>, neg |-> FALSE, string |-> chars]

ValueBool(b) ==
    [variant |-> "Bool", int |-> IF b THEN 1 ELSE 0, frac |-> <<>>, neg |-> FALSE,
     string |-> <<>>]

\* the decimal number written by a run of digits
RECURSIVE digits_value(_)
digits_value(digits) ==
    IF digits = <<>> THEN 0
    ELSE 10 * digits_value(SubSeq(digits, 1, Len(digits) - 1)) + to_digit(digits[Len(digits)])

RECURSIVE strip_trailing_zeros(_)
strip_trailing_zeros(digits) ==
    IF digits # <<>> /\ digits[Len(digits)] = "0"
    THEN strip_trailing_zeros(SubSeq(digits, 1, Len(digits) - 1))
    ELSE digits

\* a Float is the number it denotes: sign, integer part and significant
\* fraction digits (0.0 and -0.0 are equal under f64::eq)
ValueFloat(negative, int_digits, frac_digits) ==
    [variant |-> "Float", int |-> digits_value(int_digits),
     frac |-> strip_trailing_zeros(frac_digits),
     neg |-> negative /\ ~(digits_value(int_digits) = 0
                           /\ strip_trailing_zeros(frac_digits) = <<>>),
     string |-> <<>>]

SelectQuery(columns, table, conditions) ==
    [kind |-> "DataManipulationQuery", node |-> "Select",
     columns |-> columns, table |-> table, conditions |-> conditions]

InsertQuery(columns, table, values) ==
    [kind |-> "DataManipulationQuery", node |-> "Insert",
     columns |-> columns, table |-> table, values |-> values]

UpdateQuery(table, values, conditions) ==
    [kind |-> "DataManipulationQuery", node |-> "Update",
     table |-> table, values |-> values, conditions |-> conditions]

DeleteQuery(columns, table, conditions) ==
    [kind |-> "DataManipulationQuery", node |-> "Delete",
     columns |-> columns, table |-> table, conditions |-> conditions]

PrimaryKey(partition_key, clustering_key) ==
    [partition_key |-> partition_key, clustering_key |-> clustering_key]

CreateTableQuery(table, primary_key, columns) ==
    [kind |-> "DataDefinitionQuery", node |-> "CreateTable",
     table |-> table, primary_key |-> primary_key, columns |-> columns]

AlterTableQuery(table, conditions) ==
    [kind |-> "DataDefinitionQuery", node |-> "AlterTable",
     table |-> table, conditions |-> conditions]

DropTableQuery(table) ==
    [kind |-> "DataDefinitionQuery", node |-> "DropTable", table |-> table]

AddColumn(column_name, column_type) ==
    [condition |-> "AddColumn", column_name |-> column_name, column_type |-> column_type]

DropColumn(column_name) ==
    [condition |-> "DropColumn", column_name |-> column_name, column_type |-> "None"]

Condition(column, operator, value) ==
    [column |-> column, operator |-> operator, value |-> value]

Column(name, column_type) == [name |-> name, column_type |-> column_type]

(***************************************************************************)
(* Results of the grammar entry points: Result<Query, QueryParsingError>   *)
(***************************************************************************)
Ok(query) == [tag |-> "Ok", value |-> query]

QuerySyntaxError(msg, query) ==
    [tag |-> "Err", value |-> [error |-> "QuerySyntaxError", msg |-> msg, query |-> query]]

UnsupportedRequest(query) ==
    [tag |-> "Err", value |-> [error |-> "UnsupportedRequest", msg |-> "", query |-> query]]

\* todo!() and Vec::remove on an empty vector abort the call
Panic ==
    [tag |-> "Panic", value |-> [error |-> "Panic", msg |-> "", query |-> <<>>]]

(***************************************************************************)
(* The nom combinators the code uses, as parser values                     *)
(***************************************************************************)
Parser(op, arg, ps) == [op |-> op, arg |-> arg, ps |-> ps]

tag(lit) == Parser("tag", lit, <<>>)

tag_no_case(lit) == Parser("tag_no_case", lit, <<>>)

take_while1(filter) == Parser("take_while1", filter, <<>>)

digit1 == Parser("take_while1", "is_digit", <<>>)

multispace0 == Parser("multispace0", "", <<>>)

parse_i64 == Parser("i64", "", <<>>)

opt(p) == Parser("opt", "", <<p>>)

recognize(p) == Parser("recognize", "", <<p>>)

\* map(p, f) and map_res(p, f); f names the closure
map(p, f) == Parser("map", f, <<p>>)

map_res(p, f) == Parser("map", f, <<p>>)

\* map(p, |_| v)
map_to(p, v) == Parser("map_to", v, <<p>>)

alt(ps) == Parser("alt", "", ps)

tuple(ps) == Parser("tuple", "", ps)

delimited(first, second, third) == Parser("delimited", "", <<first, second, third>>)

preceded(first, second) == Parser("preceded", "", <<first, second>>)

terminated(first, second) == Parser("terminated", "", <<first, second>>)

separated_list0(sep, f) == Parser("separated_list0", "", <<sep, f>>)

\* separated_list1 accepting an empty list, as separated_list0 does
separated_list1_or_empty(sep, f) == Parser("separated_list0", "", <<sep, f>>)

separated_list1(sep, f) == Parser("separated_list1", "", <<sep, f>>)

(***************************************************************************)
(* The closures given to map                                               *)
(***************************************************************************)
\* str::parse::<f64> on the recognised text -?digits.digits
parse_f64(text) ==
    LET body == IF Head(text) = "-" THEN Tail(text) ELSE text
        dot  == CHOOSE k \in 1..Len(body) : body[k] = "."
    IN  ValueFloat(Head(text) = "-", SubSeq(body, 1, dot - 1),
                   SubSeq(body, dot + 1, Len(body)))

RECURSIVE flatten(_)
flatten(lists) == IF lists = <<>> THEN <<>> ELSE Head(lists) \o flatten(Tail(lists))

\* |(column_name, column_type, _, _)| (Column, PrimaryKey) with the column
\* as the clustering key
first_column_and_key_clustering(out) ==
    <<Column(out[1], out[2]), PrimaryKey(<<>>, <<out[1]>>)>>

\* |(column_name, column_type, _, _)| (Column, PrimaryKey): the first column
\* is the whole partition key, and there is no clustering key
first_column_and_key(out) ==
    <<Column(out[1], out[2]), PrimaryKey(<<out[1]>>, <<>>)>>

\* columns.push(first_column); columns.append(&mut other_columns)
push_and_append(out) == <<<<out[1][1]>> \o out[2], out[1][2]>>

\* the two lists of the nested form, exchanged
nested_primary_key_swapped(out) == PrimaryKey(out[2], out[1])

\* |(partition_key, clustering_key)| PrimaryKey { partition_key, clustering_key }
nested_primary_key(out) == PrimaryKey(out[1], out[2])

\* the flat form with the LAST name as the partition key
flat_primary_key_pop(out) ==
    PrimaryKey(<<out[Len(out)]>>, SubSeq(out, 1, Len(out) - 1))

\* column_names.remove(0) is the partition key, what is left the clustering key
flat_primary_key(out) == PrimaryKey(<<Head(out)>>, Tail(out))

apply(f, out) ==
    CASE f = "String::from"    -> out
      [] f = "Value::Integer"  -> ValueInteger(out)
      [] f = "Value::Float"    -> parse_f64(out)
      [] f = "Value::String"   -> ValueString(out)
      [] f = "Condition"       -> Condition(out[1], out[2], out[3])
      [] f = "Column"          -> Column(out[1], out[2])
      [] f = "assignment"      -> <<out[1], out[3]>>
      [] f = "first_column_and_key" -> first_column_and_key(out)
      [] f = "push_and_append" -> push_and_append(out)
      [] f = "columns_and_key" -> <<out[1], out[3]>>
      [] f = "nested_primary_key" -> nested_primary_key(out)
      [] f = "flat_primary_key" -> flat_primary_key(out)
      [] f = "vec_AddColumn"   -> <<AddColumn(out[1], out[2])>>
      [] f = "AddColumn"       -> AddColumn(out[1], out[2])
      [] f = "vec_DropColumn"  -> <<DropColumn(out)>>
      [] f = "DropColumn"      -> DropColumn(out)
      [] f = "flatten"         -> flatten(out)

\* Vec::remove(0) panics on an empty vector
panics(f, out) == f = "flat_primary_key" /\ out = <<>>

(***************************************************************************)
(* Applying a parser to an input                                           *)
(***************************************************************************)
RECURSIVE skip_multispace(_)
\* the input after its leading white space
skip_multispace(input) ==
    IF input # <<>> /\ Head(input) \in WhitespaceChars
    THEN skip_multispace(Tail(input))
    ELSE input

is_identifier_char(ch) == is_alphabetic(ch) \/ ch = "_"

is_not_quote(ch) == ch # "'"

\* the character predicates given to take_while1
filter(name, ch) ==
    CASE name = "is_digit"           -> is_digit(ch)
      [] name = "is_identifier_char" -> is_identifier_char(ch)
      [] name = "is_not_quote"       -> is_not_quote(ch)

RECURSIVE prefix_len(_, _)
\* the length of the longest prefix of input whose characters pass the filter
prefix_len(name, input) ==
    IF input # <<>> /\ filter(name, Head(input))
    THEN 1 + prefix_len(name, Tail(input))
    ELSE 0

\* the first n characters of the input, taken
take(n, input) == POk(DropFirst(input, n), SubSeq(input, 1, n))

run_tag(lit, input) ==
    IF Len(input) >= Len(lit) /\ SubSeq(input, 1, Len(lit)) = lit
    THEN take(Len(lit), input)
    ELSE PErr

run_tag_no_case(lit, input) ==
    IF /\ Len(input) >= Len(lit)
       /\ \A i \in 1..Len(lit) : to_lowercase(input[i]) = to_lowercase(lit[i])
    THEN take(Len(lit), input)
    ELSE PErr

run_take_while1(name, input) ==
    IF prefix_len(name, input) = 0 THEN PErr ELSE take(prefix_len(name, input), input)

\* nom::character::complete::i64: an optional sign, then at least one digit
i64_digits(negative, digits) ==
    IF ~digits.ok THEN PErr
    ELSE POk(digits.rest,
             IF negative THEN 0 - digits_value(digits.out) ELSE digits_value(digits.out))

run_i64(input) ==
    IF input # <<>> /\ Head(input) \in {"-", "+"}
    THEN i64_digits(Head(input) = "-", run_take_while1("is_digit", Tail(input)))
    ELSE i64_digits(FALSE, run_take_while1("is_digit", input))

run_opt(r, input) == IF r.ok \/ r.panic THEN r ELSE POk(input, <<>>)

run_recognize(r, input) ==
    IF r.ok THEN POk(r.rest, SubSeq(input, 1, Len(input) - Len(r.rest))) ELSE r

run_map(r, f) ==
    IF ~r.ok THEN r
    ELSE IF panics(f, r.out) THEN PPanic
    ELSE POk(r.rest, apply(f, r.out))

run_map_to(r, v) == IF r.ok THEN POk(r.rest, v) ELSE r

\* the k-th output of a sequence of parsers
pick(r, k) == IF r.ok THEN POk(r.rest, r.out[k]) ELSE r

RECURSIVE run(_, _)
RECURSIVE run_alt(_, _)
RECURSIVE run_tuple(_, _, _)
RECURSIVE run_list(_, _, _, _)

\* alt: the first alternative that succeeds
alt_next(ps, r, input) == IF r.ok \/ r.panic THEN r ELSE run_alt(Tail(ps), input)

run_alt(ps, input) ==
    IF ps = <<>> THEN PErr ELSE alt_next(ps, run(Head(ps), input), input)

\* tuple: every parser in turn, each on what the one before left
tuple_next(ps, r, outs) ==
    IF r.ok THEN run_tuple(Tail(ps), r.rest, Append(outs, r.out)) ELSE r

run_tuple(ps, input, outs) ==
    IF ps = <<>> THEN POk(input, outs) ELSE tuple_next(ps, run(Head(ps), input), outs)

\* separated_list0/1 after the first element: a separator and an element
\* extend the list; when either fails the list ends BEFORE the separator,
\* which stays in the remaining input.  A separator that succeeds without
\* consuming input is the one error of the list itself
list_element(sep, f, input, res, e) ==
    IF e.panic THEN e
    ELSE IF ~e.ok THEN POk(input, res)
    ELSE run_list(sep, f, e.rest, Append(res, e.out))

list_separator(sep, f, input, res, s) ==
    IF s.panic THEN s
    ELSE IF ~s.ok THEN POk(input, res)
    ELSE IF Len(s.rest) = Len(input) THEN PErr
    ELSE list_element(sep, f, input, res, run(f, s.rest))

run_list(sep, f, input, res) == list_separator(sep, f, input, res, run(sep, input))

list_first(sep, f, input, first, allow_empty) ==
    IF first.ok THEN run_list(sep, f, first.rest, <<first.out>>)
    ELSE IF first.panic THEN first
    ELSE IF allow_empty THEN POk(input, <<>>)
    ELSE PErr

run(p, input) ==
    CASE p.op = "tag"          -> run_tag(p.arg, input)
      [] p.op = "tag_no_case"  -> run_tag_no_case(p.arg, input)
      [] p.op = "take_while1"  -> run_take_while1(p.arg, input)
      [] p.op = "multispace0"  -> POk(skip_multispace(input), <<>>)
      [] p.op = "i64"          -> run_i64(input)
      [] p.op = "opt"          -> run_opt(run(p.ps[1], input), input)
      [] p.op = "recognize"    -> run_recognize(run(p.ps[1], input), input)
      [] p.op = "map"          -> run_map(run(p.ps[1], input), p.arg)
      [] p.op = "map_to"       -> run_map_to(run(p.ps[1], input), p.arg)
      [] p.op = "alt"          -> run_alt(p.ps, input)
      [] p.op = "tuple"        -> run_tuple(p.ps, input, <<>>)
      [] p.op = "delimited"    -> pick(run_tuple(p.ps, input, <<>>), 2)
      [] p.op = "preceded"     -> pick(run_tuple(p.ps, input, <<>>), 2)
      [] p.op = "terminated"   -> pick(run_tuple(p.ps, input, <<>>), 1)
      [] p.op = "separated_list0" ->
           list_first(p.ps[1], p.ps[2], input, run(p.ps[2], input), TRUE)
      [] p.op = "separated_list1" ->
           list_first(p.ps[1], p.ps[2], input, run(p.ps[2], input), FALSE)

(***************************************************************************)
(* common_parser.rs                                                        *)
(***************************************************************************)
ws(f) == delimited(multispace0, f, multispace0)

\* no word boundary is required after the keyword
parse_keyword(keyword) == ws(tag_no_case(keyword))

parse_string ==
    map(ws(delimited(tag(<<"'">>), take_while1("is_not_quote"), tag(<<"'">>))),
        "Value::String")

parse_float ==
    ws(map_res(recognize(tuple(<<opt(tag(<<"-">>)), digit1, tag(<<".">>), digit1>>)),
               "Value::Float"))

parse_integer == ws(map(parse_i64, "Value::Integer"))

parse_value ==
    alt(<<parse_float,
          parse_integer,
          map_to(ws(tag_no_case(FALSE_KW)), ValueBool(FALSE)),
          map_to(ws(tag_no_case(TRUE_KW)), ValueBool(TRUE)),
          parse_string>>)

parse_identifier == ws(map(take_while1("is_identifier_char"), "String::from"))

parse_comma == ws(tag(<<",">>))

(***************************************************************************)
(* dml_parser.rs                                                           *)
(***************************************************************************)
\* parse_condition with the one-character comparators tried first
parse_condition_short_first ==
    map(tuple(<<parse_identifier,
                alt(<<map_to(ws(tag(<<">">>)), "Greater"),
                      map_to(ws(tag(<<"<">>)), "Less"),
                      map_to(ws(tag(<<"=">>)), "Equals"),
                      map_to(ws(tag(<<">", "=">>)), "GreaterOrEquals"),
                      map_to(ws(tag(<<"<", "=">>)), "LessOrEquals"),
                      map_to(ws(tag(<<"!", "=">>)), "NotEquals")>>),
                alt(<<parse_float,
                      parse_integer,
                      map_to(ws(tag(<<"f", "a", "l", "s", "e">>)), ValueBool(FALSE)),
                      map_to(ws(tag(<<"t", "r", "u", "e">>)), ValueBool(TRUE)),
                      parse_string>>)>>),
        "Condition")

\* the boolean literals are matched with tag, in lower case only
parse_condition ==
    map(tuple(<<parse_identifier,
                alt(<<map_to(ws(tag(<<">", "=">>)), "GreaterOrEquals"),
                      map_to(ws(tag(<<"<", "=">>)), "LessOrEquals"),
                      map_to(ws(tag(<<">">>)), "Greater"),
                      map_to(ws(tag(<<"<">>)), "Less"),
                      map_to(ws(tag(<<"=">>)), "Equals"),
                      map_to(ws(tag(<<"!", "=">>)), "NotEquals")>>),
                alt(<<parse_float,
                      parse_integer,
                      map_to(ws(tag(<<"f", "a", "l", "s", "e">>)), ValueBool(FALSE)),
                      map_to(ws(tag(<<"t", "r", "u", "e">>)), ValueBool(TRUE)),
                      parse_string>>)>>),
        "Condition")

conditions_after_where(query, where) ==
    IF where.ok
    THEN run(separated_list1(parse_keyword(AND), parse_condition), where.rest)
    ELSE POk(query, <<>>)

parse_conditions(query) == conditions_after_where(query, run(parse_keyword(WHERE), query))

\* select_node with the error arm left unfinished: Err(_) => todo!()
select_node_todo(query, columns, table, conditions) ==
    IF ~conditions.ok
    THEN Panic
    ELSE Ok(SelectQuery(columns, table, conditions.out))

select_node(query, columns, table, conditions) ==
    IF ~conditions.ok
    THEN QuerySyntaxError("an error occurred while parsing where condition", query)
    ELSE Ok(SelectQuery(columns, table, conditions.out))

select_conditions(query, columns, table) ==
    IF ~table.ok
    THEN QuerySyntaxError("expected the table name", query)
    ELSE select_node(table.rest, columns, table.out, parse_conditions(table.rest))

select_table(query, columns, from) ==
    IF ~from.ok
    THEN QuerySyntaxError("expected the from keyword", query)
    ELSE select_conditions(from.rest, columns, run(parse_identifier, from.rest))

\* select_from with the column list kept in reverse order
select_from_reversed(query, columns) ==
    IF ~columns.ok
    THEN QuerySyntaxError("expected the column names or *", query)
    ELSE select_table(columns.rest,
                      [k \in 1..Len(columns.out) |-> columns.out[Len(columns.out) + 1 - k]],
                      run(parse_keyword(FROM), columns.rest))

select_from(query, columns) ==
    IF ~columns.ok
    THEN QuerySyntaxError("expected the column names or *", query)
    ELSE select_table(columns.rest, columns.out, run(parse_keyword(FROM), columns.rest))

select_columns(query, select) ==
    IF ~select.ok
    THEN QuerySyntaxError("expected the select keyword", query)
    ELSE select_from(select.rest,
                     run(alt(<<map_to(ws(tag(<<"*">>)), <<>>),
                               separated_list1(ws(tag(<<",">>)), parse_identifier)>>),
                         select.rest))

parse_select_query(query) == select_columns(query, run(parse_keyword(SELECT), query))

\* insert_node with a cardinality check of the values against the columns
insert_node_checked(query, table, columns, values) ==
    IF ~values.ok \/ Len(values.out) # Len(columns)
    THEN QuerySyntaxError("an error occurred while parsing values", query)
    ELSE Ok(InsertQuery(columns, table, values.out))

insert_node(query, table, columns, values) ==
    IF ~values.ok
    THEN QuerySyntaxError("an error occurred while parsing values", query)
    ELSE Ok(InsertQuery(columns, table, values.out))

insert_values(query, table, columns, values_keyword) ==
    IF ~values_keyword.ok
    THEN QuerySyntaxError("expected the values keyword", query)
    ELSE insert_node(values_keyword.rest, table, columns,
                     run(ws(delimited(tag(<<"(">>),
                                      separated_list1(ws(tag(<<",">>)), parse_value),
                                      tag(<<")">>))),
                         values_keyword.rest))

insert_values_keyword(query, table, columns) ==
    IF ~columns.ok
    THEN QuerySyntaxError("an error occurred while parsing column names", query)
    ELSE insert_values(columns.rest, table.out, columns.out,
                       run(parse_keyword(VALUES), columns.rest))

insert_columns(query, table) ==
    IF ~table.ok
    THEN QuerySyntaxError("expected the table name", query)
    ELSE insert_values_keyword(table.rest, table,
                               run(ws(delimited(tag(<<"(">>),
                                                separated_list1(ws(tag(<<",">>)),
                                                                parse_identifier),
                                                tag(<<")">>))),
                                   table.rest))

insert_table(query, insert_into) ==
    IF ~insert_into.ok
    THEN QuerySyntaxError("expected the insert into keyword", query)
    ELSE insert_columns(insert_into.rest, run(parse_identifier, insert_into.rest))

parse_insert(query) == insert_table(query, run(parse_keyword(INSERT_INTO), query))

update_node(query, table, values, conditions) ==
    IF ~conditions.ok
    THEN QuerySyntaxError("an error occurred while parsing where condition", query)
    ELSE Ok(UpdateQuery(table, values, conditions.out))

update_conditions(query, table, values) ==
    IF ~values.ok
    THEN QuerySyntaxError("an error occurred while parsing values", query)
    ELSE update_node(values.rest, table, values.out, parse_conditions(values.rest))

update_values(query, table, set) ==
    IF ~set.ok
    THEN QuerySyntaxError("expected set keyword", query)
    ELSE update_conditions(set.rest, table,
                           run(separated_list1(ws(tag(<<",">>)),
                                               map(tuple(<<parse_identifier,
                                                           ws(tag(<<"=">>)),
                                                           parse_value>>),
                                                   "assignment")),
                               set.rest))

update_set(query, table) ==
    IF ~table.ok
    THEN QuerySyntaxError("an error occurred while parsing the table name", query)
    ELSE update_values(table.rest, table.out, run(parse_keyword(SET), table.rest))

update_table(query, update) ==
    IF ~update.ok
    THEN QuerySyntaxError("an error occurred while parsing update keyword", query)
    ELSE update_set(update.rest, run(parse_identifier, update.rest))

parse_update(query) == update_table(query, run(parse_keyword(UPDATE), query))

delete_node(query, columns, table, conditions) ==
    IF ~conditions.ok
    THEN QuerySyntaxError("an error occurred while parsing where condition", query)
    ELSE Ok(DeleteQuery(columns, table, conditions.out))

delete_conditions(query, columns, table) ==
    IF ~table.ok
    THEN QuerySyntaxError("an error occurred while parsing the table name", query)
    ELSE delete_node(table.rest, columns, table.out, parse_conditions(table.rest))

delete_table(query, columns) == delete_conditions(query, columns, run(parse_identifier, query))

delete_listed_from(query, columns, from) ==
    IF ~from.ok
    THEN QuerySyntaxError("an error occurred while parsing from keyword", query)
    ELSE delete_table(from.rest, columns)

delete_listed(query, columns) ==
    IF ~columns.ok
    THEN QuerySyntaxError("an error occurred while parsing the columns", query)
    ELSE delete_listed_from(columns.rest, columns.out,
                            run(parse_keyword(FROM), columns.rest))

\* FROM right after DELETE: no column list; otherwise a column list, then FROM
delete_from(query, from) ==
    IF from.ok
    THEN delete_table(from.rest, <<>>)
    ELSE delete_listed(query,
                       run(separated_list1(ws(tag(<<",">>)), parse_identifier), query))

delete_columns(query, delete) ==
    IF ~delete.ok
    THEN QuerySyntaxError("an error occurred while parsing delete keyword", query)
    ELSE delete_from(delete.rest, run(parse_keyword(FROM), delete.rest))

parse_delete(query) == delete_columns(query, run(parse_keyword(DELETE), query))

(***************************************************************************)
(* ddl_parser.rs                                                           *)
(***************************************************************************)
parse_column_type ==
    alt(<<map_to(parse_keyword(UUID), "Uuid"),
          map_to(parse_keyword(INT), "Int"),
          map_to(parse_keyword(LONG), "Long"),
          map_to(parse_keyword(FLOAT), "Float"),
          map_to(parse_keyword(DOUBLE), "Double"),
          map_to(parse_keyword(TIMESTAMP), "Timestamp"),
          map_to(parse_keyword(TEXT), "Text"),
          map_to(parse_keyword(BOOL), "Bool")>>)

\* the lookahead: "(" with no white space before it, and PRIMARY KEY matched
\* with tag, in the case the keyword constant is written in
is_single_pk(query) ==
    run(tuple(<<tag(<<"(">>), parse_identifier, parse_column_type,
                ws(tag(PRIMARY_KEY))>>),
        query).ok

parse_create_table_with_single_pk ==
    map(tuple(<<map(tuple(<<parse_identifier, parse_column_type,
                            parse_keyword(PRIMARY_KEY), opt(parse_comma)>>),
                    "first_column_and_key"),
                separated_list0(parse_comma,
                                map(tuple(<<parse_identifier, parse_column_type>>),
                                    "Column"))>>),
        "push_and_append")

parse_composite_pk ==
    delimited(
        ws(tag(<<"(">>)),
        alt(<<map(tuple(<<delimited(ws(tag(<<"(">>)),
                                    separated_list1(parse_comma,
                                                    map(parse_identifier, "String::from")),
                                    ws(tag(<<")">>))),
                          preceded(ws(tag(<<",">>)),
                                   separated_list0(parse_comma,
                                                   map(parse_identifier, "String::from")))>>),
                  "nested_primary_key"),
              map(separated_list1(parse_comma, map(parse_identifier, "String::from")),
                  "flat_primary_key")>>),
        ws(tag(<<")">>)))

parse_create_table_with_composite_pk ==
    map(tuple(<<terminated(separated_list1(parse_comma,
                                           map(tuple(<<parse_identifier,
                                                       parse_column_type>>),
                                               "Column")),
                           ws(tag(<<",">>))),
                parse_keyword(PRIMARY_KEY),
                parse_composite_pk>>),
        "columns_and_key")

create_table_node(query, table, msg, body) ==
    IF body.panic THEN Panic
    ELSE IF ~body.ok THEN QuerySyntaxError(msg, query)
    ELSE Ok(CreateTableQuery(table, body.out[2], body.out[1]))

create_table_columns(query, table) ==
    IF ~table.ok
    THEN QuerySyntaxError("cannot parse table name", query)
    ELSE IF is_single_pk(table.rest)
    THEN create_table_node(
             table.rest, table.out,
             "cannot parse the column definition with a simple primary key",
             run(delimited(ws(tag(<<"(">>)), parse_create_table_with_single_pk,
                           ws(tag(<<")">>))),
                 table.rest))
    ELSE create_table_node(
             table.rest, table.out,
             "cannot parse the column definition with a composite primary key",
             run(delimited(ws(tag(<<"(">>)), parse_create_table_with_composite_pk,
                           ws(tag(<<")">>))),
                 table.rest))

create_table_name(query, create_table) ==
    IF ~create_table.ok
    THEN QuerySyntaxError("cannot parse statement 'CREATE TABLE'", query)
    ELSE create_table_columns(create_table.rest,
                              run(parse_identifier, create_table.rest))

parse_create_table_query(query) ==
    create_table_name(query, run(ws(parse_keyword(CREATE_TABLE)), query))

\* parse_add_column without the parenthesised list
parse_add_column_single ==
    preceded(ws(tag_no_case(ADD)),
             map(tuple(<<parse_identifier, parse_column_type>>), "vec_AddColumn"))

parse_add_column ==
    preceded(ws(tag_no_case(ADD)),
             alt(<<map(tuple(<<parse_identifier, parse_column_type>>), "vec_AddColumn"),
                   delimited(ws(tag(<<"(">>)),
                             separated_list1(ws(tag(<<",">>)),
                                             map(tuple(<<parse_identifier,
                                                         parse_column_type>>),
                                                 "AddColumn")),
                             ws(tag(<<")">>)))>>))

parse_drop_column ==
    preceded(ws(tag_no_case(DROP)),
             alt(<<map(parse_identifier, "vec_DropColumn"),
                   delimited(ws(tag(<<"(">>)),
                             separated_list1(ws(tag(<<",">>)),
                                             map(parse_identifier, "DropColumn")),
                             ws(tag(<<")">>)))>>))

\* parse_alter_table_condition requiring at least one clause
parse_alter_table_condition_nonempty ==
    map(separated_list1(ws(tag(<<",">>)), alt(<<parse_add_column, parse_drop_column>>)),
        "flatten")

parse_alter_table_condition ==
    map(separated_list0(ws(tag(<<",">>)), alt(<<parse_add_column, parse_drop_column>>)),
        "flatten")

\* Err(_) => todo!()
alter_table_node(table, conditions) ==
    IF ~conditions.ok THEN Panic ELSE Ok(AlterTableQuery(table, conditions.out))

alter_table_conditions(query, table) ==
    IF ~table.ok
    THEN QuerySyntaxError("cannot parse table name", query)
    ELSE alter_table_node(table.out, run(parse_alter_table_condition, table.rest))

alter_table_name(query, alter_table) ==
    IF ~alter_table.ok
    THEN QuerySyntaxError("expected 'DROP TABLE' statement", query)
    ELSE alter_table_conditions(alter_table.rest, run(parse_identifier, alter_table.rest))

parse_alter_table_query(query) ==
    alter_table_name(query, run(ws(parse_keyword(ALTER_TABLE)), query))

\* drop_table_node rejecting input left after the table name
drop_table_node_all_consuming(query, table) ==
    IF ~table.ok \/ table.rest # <<>>
    THEN QuerySyntaxError("cannot parse table name", query)
    ELSE Ok(DropTableQuery(table.out))

drop_table_node(query, table) ==
    IF ~table.ok
    THEN QuerySyntaxError("cannot parse table name", query)
    ELSE Ok(DropTableQuery(table.out))

drop_table_name(query, drop_table) ==
    IF ~drop_table.ok
    THEN QuerySyntaxError("expected 'DROP TABLE' statement", query)
    ELSE drop_table_node(drop_table.rest, run(parse_identifier, drop_table.rest))

parse_drop_table_query(query) ==
    drop_table_name(query, run(ws(parse_keyword(DROP_TABLE)), query))

(***************************************************************************)
(* parser.rs                                                               *)
(***************************************************************************)
\* CREATE TABLE and ALTER TABLE are both mapped to QueryType::Delete, and
\* there is no alternative for DROP TABLE
get_query_type(query) ==
    run(alt(<<map_to(parse_keyword(SELECT), "Select"),
              map_to(parse_keyword(INSERT_INTO), "Insert"),
              map_to(parse_keyword(UPDATE), "Update"),
              map_to(parse_keyword(DELETE), "Delete"),
              map_to(parse_keyword(CREATE_TABLE), "Delete"),
              map_to(parse_keyword(ALTER_TABLE), "Delete")>>),
        query)

\* the sub-parser is given the original query, leading keyword included
route(query, query_type) ==
    IF ~query_type.ok THEN UnsupportedRequest(query)
    ELSE CASE query_type.out = "Select"      -> parse_select_query(query)
           [] query_type.out = "Insert"      -> parse_insert(query)
           [] query_type.out = "Update"      -> parse_update(query)
           [] query_type.out = "Delete"      -> parse_delete(query)
           [] query_type.out = "CreateTable" -> parse_create_table_query(query)
           [] query_type.out = "AlterTable"  -> parse_alter_table_query(query)

\* parse_query on the query without its leading white space
parse_query_trimmed(query) == route(skip_multispace(query), get_query_type(query))

parse_query(query) == route(query, get_query_type(query))

(***************************************************************************)
(* query_processor/dml_parser.rs: the earlier version of the data          *)
(* manipulation parser, whose Query has no DataManipulationQuery wrapper   *)
(***************************************************************************)
processor_SelectQuery(columns, table, conditions) ==
    [kind |-> "Query", node |-> "Select",
     columns |-> columns, table |-> table, conditions |-> conditions]

processor_InsertQuery(columns, table, values) ==
    [kind |-> "Query", node |-> "Insert",
     columns |-> columns, table |-> table, values |-> values]

processor_UpdateQuery(table, values, conditions) ==
    [kind |-> "Query", node |-> "Update",
     table |-> table, values |-> values, conditions |-> conditions]

processor_DeleteQuery(columns, table, conditions) ==
    [kind |-> "Query", node |-> "Delete",
     columns |-> columns, table |-> table, conditions |-> conditions]

\* the functions of this file have the names of their later versions in
\* query_parser; here each is written processor_<name>
processor_ws(f) == delimited(multispace0, f, multispace0)

processor_parse_keyword(keyword) == processor_ws(tag_no_case(keyword))

processor_parse_string ==
    map(processor_ws(delimited(tag(<<"'">>), take_while1("is_not_quote"), tag(<<"'">>))),
        "Value::String")

processor_parse_float ==
    processor_ws(map_res(recognize(tuple(<<opt(tag(<<"-">>)), digit1, tag(<<".">>), digit1>>)),
               "Value::Float"))

processor_parse_integer == processor_ws(map(parse_i64, "Value::Integer"))

\* the boolean literals are matched with tag, in lower case only
processor_parse_value ==
    alt(<<processor_parse_float,
          processor_parse_integer,
          map_to(processor_ws(tag(<<"f", "a", "l", "s", "e">>)), ValueBool(FALSE)),
          map_to(processor_ws(tag(<<"t", "r", "u", "e">>)), ValueBool(TRUE)),
          processor_parse_string>>)

processor_parse_identifier == processor_ws(map(take_while1("is_identifier_char"), "String::from"))

processor_parse_condition ==
    map(tuple(<<processor_parse_identifier,
                alt(<<map_to(processor_ws(tag(<<">", "=">>)), "GreaterOrEquals"),
                      map_to(processor_ws(tag(<<"<", "=">>)), "LessOrEquals"),
                      map_to(processor_ws(tag(<<">">>)), "Greater"),
                      map_to(processor_ws(tag(<<"<">>)), "Less"),
                      map_to(processor_ws(tag(<<"=">>)), "Equals"),
                      map_to(processor_ws(tag(<<"!", "=">>)), "NotEquals")>>),
                alt(<<processor_parse_float,
                      processor_parse_integer,
                      map_to(processor_ws(tag(<<"f", "a", "l", "s", "e">>)), ValueBool(FALSE)),
                      map_to(processor_ws(tag(<<"t", "r", "u", "e">>)), ValueBool(TRUE)),
                      processor_parse_string>>)>>),
        "Condition")

processor_conditions_after_where(query, where) ==
    IF where.ok
    THEN run(separated_list1(processor_parse_keyword(AND), processor_parse_condition), where.rest)
    ELSE POk(query, <<>>)

processor_parse_conditions(query) == processor_conditions_after_where(query, run(processor_parse_keyword(WHERE), query))

processor_select_node(query, columns, table, conditions) ==
    IF ~conditions.ok
    THEN QuerySyntaxError("an error occurred while parsing where condition", query)
    ELSE Ok(processor_SelectQuery(columns, table, conditions.out))

processor_select_conditions(query, columns, table) ==
    IF ~table.ok
    THEN QuerySyntaxError("expected the table name", query)
    ELSE processor_select_node(table.rest, columns, table.out, processor_parse_conditions(table.rest))

processor_select_table(query, columns, from) ==
    IF ~from.ok
    THEN QuerySyntaxError("expected the from keyword", query)
    ELSE processor_select_conditions(from.rest, columns, run(processor_parse_identifier, from.rest))

processor_select_from(query, columns) ==
    IF ~columns.ok
    THEN QuerySyntaxError("expected the column names or *", query)
    ELSE processor_select_table(columns.rest, columns.out, run(processor_parse_keyword(FROM), columns.rest))

processor_select_columns(query, select) ==
    IF ~select.ok
    THEN QuerySyntaxError("expected the select keyword", query)
    ELSE processor_select_from(select.rest,
                     run(alt(<<map_to(processor_ws(tag(<<"*">>)), <<>>),
                               separated_list1(processor_ws(tag(<<",">>)), processor_parse_identifier)>>),
                         select.rest))

processor_parse_select_query(query) == processor_select_columns(query, run(processor_parse_keyword(SELECT), query))

processor_insert_node(query, table, columns, values) ==
    IF ~values.ok
    THEN QuerySyntaxError("an error occurred while parsing values", query)
    ELSE Ok(processor_InsertQuery(columns, table, values.out))

processor_insert_values(query, table, columns, values_keyword) ==
    IF ~values_keyword.ok
    THEN QuerySyntaxError("expected the values keyword", query)
    ELSE processor_insert_node(values_keyword.rest, table, columns,
                     run(processor_ws(delimited(tag(<<"(">>),
                                      separated_list1(processor_ws(tag(<<",">>)), processor_parse_value),
                                      tag(<<")">>))),
                         values_keyword.rest))

processor_insert_values_keyword(query, table, columns) ==
    IF ~columns.ok
    THEN QuerySyntaxError("an error occurred while parsing column names", query)
    ELSE processor_insert_values(columns.rest, table.out, columns.out,
                       run(processor_parse_keyword(VALUES), columns.rest))

processor_insert_columns(query, table) ==
    IF ~table.ok
    THEN QuerySyntaxError("expected the table name", query)
    ELSE processor_insert_values_keyword(table.rest, table,
                               run(processor_ws(delimited(tag(<<"(">>),
                                                separated_list1(processor_ws(tag(<<",">>)),
                                                                processor_parse_identifier),
                                                tag(<<")">>))),
                                   table.rest))

processor_insert_table(query, insert_into) ==
    IF ~insert_into.ok
    THEN QuerySyntaxError("expected the insert into keyword", query)
    ELSE processor_insert_columns(insert_into.rest, run(processor_parse_identifier, insert_into.rest))

processor_parse_insert(query) == processor_insert_table(query, run(processor_parse_keyword(INSERT_INTO), query))

processor_update_node(query, table, values, conditions) ==
    IF ~conditions.ok
    THEN QuerySyntaxError("an error occurred while parsing where condition", query)
    ELSE Ok(processor_UpdateQuery(table, values, conditions.out))

processor_update_conditions(query, table, values) ==
    IF ~values.ok
    THEN QuerySyntaxError("an error occurred while parsing values", query)
    ELSE processor_update_node(values.rest, table, values.out, processor_parse_conditions(values.rest))

processor_update_values(query, table, set) ==
    IF ~set.ok
    THEN QuerySyntaxError("expected set keyword", query)
    ELSE processor_update_conditions(set.rest, table,
                           run(separated_list1(processor_ws(tag(<<",">>)),
                                               map(tuple(<<processor_parse_identifier,
                                                           processor_ws(tag(<<"=">>)),
                                                           processor_parse_value>>),
                                                   "assignment")),
                               set.rest))

processor_update_set(query, table) ==
    IF ~table.ok
    THEN QuerySyntaxError("an error occurred while parsing the table name", query)
    ELSE processor_update_values(table.rest, table.out, run(processor_parse_keyword(SET), table.rest))

processor_update_table(query, update) ==
    IF ~update.ok
    THEN QuerySyntaxError("an error occurred while parsing update keyword", query)
    ELSE processor_update_set(update.rest, run(processor_parse_identifier, update.rest))

processor_parse_update(query) == processor_update_table(query, run(processor_parse_keyword(UPDATE), query))

processor_delete_node(query, columns, table, conditions) ==
    IF ~conditions.ok
    THEN QuerySyntaxError("an error occurred while parsing where condition", query)
    ELSE Ok(processor_DeleteQuery(columns, table, conditions.out))

processor_delete_conditions(query, columns, table) ==
    IF ~table.ok
    THEN QuerySyntaxError("an error occurred while parsing the table name", query)
    ELSE processor_delete_node(table.rest, columns, table.out, processor_parse_conditions(table.rest))

processor_delete_table(query, columns) == processor_delete_conditions(query, columns, run(processor_parse_identifier, query))

processor_delete_listed_from(query, columns, from) ==
    IF ~from.ok
    THEN QuerySyntaxError("an error occurred while parsing from keyword", query)
    ELSE processor_delete_table(from.rest, columns)

processor_delete_listed(query, columns) ==
    IF ~columns.ok
    THEN QuerySyntaxError("an error occurred while parsing the columns", query)
    ELSE processor_delete_listed_from(columns.rest, columns.out,
                            run(processor_parse_keyword(FROM), columns.rest))

processor_delete_from(query, from) ==
    IF from.ok
    THEN processor_delete_table(from.rest, <<>>)
    ELSE processor_delete_listed(query,
                       run(separated_list1(processor_ws(tag(<<",">>)), processor_parse_identifier), query))

processor_delete_columns(query, delete) ==
    IF ~delete.ok
    THEN QuerySyntaxError("an error occurred while parsing delete keyword", query)
    ELSE processor_delete_from(delete.rest, run(processor_parse_keyword(FROM), delete.rest))

processor_parse_delete(query) == processor_delete_columns(query, run(processor_parse_keyword(DELETE), query))

processor_get_query_type(query) ==
    run(alt(<<map_to(processor_parse_keyword(SELECT), "Select"),
              map_to(processor_parse_keyword(INSERT_INTO), "Insert"),
              map_to(processor_parse_keyword(UPDATE), "Update"),
              map_to(processor_parse_keyword(DELETE), "Delete")>>),
        query)

processor_route(query, query_type) ==
    IF ~query_type.ok THEN UnsupportedRequest(query)
    ELSE CASE query_type.out = "Select" -> processor_parse_select_query(query)
           [] query_type.out = "Insert" -> processor_parse_insert(query)
           [] query_type.out = "Update" -> processor_parse_update(query)
           [] query_type.out = "Delete" -> processor_parse_delete(query)

processor_parse_query(query) == processor_route(query, processor_get_query_type(query))

(***************************************************************************)
(* The statements given to the parser.  A statement is described by its    *)
(* parts and written out token by token; the text is what the parser gets. *)
(***************************************************************************)
MaxColumns == 2
MaxKey == 2
MaxConditions == 2
MaxClauses == 2
MaxValues == 2

SeqsUpTo(S, n) == UNION {[1..k -> S] : k \in 0..n}

Keyword(text) == [text |-> text, keyword |-> TRUE]

Word(text) == [text |-> text, keyword |-> FALSE]

RECURSIVE SeparatedBy(_, _)
\* the token lists of items, with sep between consecutive ones
SeparatedBy(items, sep) ==
    IF items = <<>> THEN <<>>
    ELSE IF Len(items) = 1 THEN Head(items)
    ELSE Head(items) \o <<sep>> \o SeparatedBy(Tail(items), sep)

Comma == Word(<<",">>)
Open == Word(<<"(">>)
Close == Word(<<")">>)

Names(names) == SeparatedBy([k \in 1..Len(names) |-> <<Word(names[k])>>], Comma)

TableName == <<"t","b","l">>

KeyNames == {<<"a">>, <<"b">>}

\* the column definitions of a table, in declaration order
ColumnDefs ==
    << [name |-> <<"a">>, type |-> INT, column_type |-> "Int"],
       [name |-> <<"b">>, type |-> TEXT, column_type |-> "Text"],
       [name |-> <<"c">>, type |-> UUID, column_type |-> "Uuid"],
       [name |-> <<"d">>, type |-> BOOL, column_type |-> "Bool"] >>

\* the first n elements of a sequence, for every n up to the bound
Prefixes(seq, n) == {SubSeq(seq, 1, k) : k \in 0..(IF n < Len(seq) THEN n ELSE Len(seq))}

ColumnLists == Prefixes(ColumnDefs, MaxColumns)

\* the clustering columns of the nested form: b is also a partition name
ClusteringLists == Prefixes(<<<<"b">>, <<"c">>, <<"a">>, <<"d">>>>, MaxKey)

SelectLists == Prefixes(<<<<"a">>, <<"b">>, <<"c">>, <<"d">>>>, MaxColumns)

ColumnTokens(c) == <<Word(c.name), Keyword(c.type)>>

Statement(family, form, table, columns, partition, clustering, items) ==
    [family |-> family, form |-> form, table |-> table, columns |-> columns,
     partition |-> partition, clustering |-> clustering, items |-> items]

\* the single-PK form with no comma after the PRIMARY KEY column
\* (unseparated), and with a comma after the last column (trailing)
UnseparatedCreateStatements ==
    { Statement("create", "unseparated", TableName, cols, <<>>, <<>>, <<>>) :
        cols \in {c \in ColumnLists : Len(c) >= 2} }
    \cup
    { Statement("create", "trailing", TableName, cols, <<>>, <<>>, <<>>) :
        cols \in ColumnLists \ {<<>>} }

\* CREATE TABLE in its three forms; the composite forms are also written
\* with an empty column list or an empty key list
CreateStatements ==
    UnseparatedCreateStatements
    \cup
    { Statement("create", "single", TableName, cols, <<>>, <<>>, <<>>) :
        cols \in ColumnLists \ {<<>>} }
    \cup
    { Statement("create", "flat", TableName, cols, key, <<>>, <<>>) :
        cols \in ColumnLists, key \in SeqsUpTo(KeyNames, MaxKey) }
    \cup
    { Statement("create", "nested", TableName, cols, p, c, <<>>) :
        cols \in ColumnLists, p \in SeqsUpTo(KeyNames, MaxKey), c \in ClusteringLists }

CreateTokens(s) ==
    LET defs == [k \in 1..Len(s.columns) |-> ColumnTokens(s.columns[k])]
        body ==
          CASE s.form = "single" ->
                 ColumnTokens(s.columns[1]) \o <<Keyword(PRIMARY_KEY)>>
                 \o (IF Len(s.columns) > 1 THEN <<Comma>> ELSE <<>>)
                 \o SeparatedBy(Tail(defs), Comma)
            [] s.form = "unseparated" ->
                 ColumnTokens(s.columns[1]) \o <<Keyword(PRIMARY_KEY)>>
                 \o SeparatedBy(Tail(defs), Comma)
            [] s.form = "trailing" ->
                 ColumnTokens(s.columns[1]) \o <<Keyword(PRIMARY_KEY), Comma>>
                 \o SeparatedBy(Tail(defs), Comma)
                 \o (IF Len(s.columns) > 1 THEN <<Comma>> ELSE <<>>)
            [] s.form = "flat" ->
                 SeparatedBy(defs, Comma) \o <<Comma, Keyword(PRIMARY_KEY), Open>>
                 \o Names(s.partition) \o <<Close>>
            [] s.form = "nested" ->
                 SeparatedBy(defs, Comma) \o <<Comma, Keyword(PRIMARY_KEY), Open, Open>>
                 \o Names(s.partition) \o <<Close>>
                 \o (IF s.clustering # <<>> THEN <<Comma>> ELSE <<>>)
                 \o Names(s.clustering) \o <<Close>>
    IN  <<Keyword(CREATE_TABLE), Word(s.table), Open>> \o body \o <<Close>>

\* SELECT with a column list (none: *) and a WHERE chain; the last
\* condition definition has no value
ConditionDefs ==
    { [column |-> <<"a">>, op |-> <<"=">>, literal |-> <<"1">>, wellformed |-> TRUE,
       condition |-> Condition(<<"a">>, "Equals", ValueInteger(1))],
      [column |-> <<"b">>, op |-> <<">", "=">>, literal |-> <<"'", "x", "'">>,
       wellformed |-> TRUE,
       condition |-> Condition(<<"b">>, "GreaterOrEquals", ValueString(<<"x">>))],
      [column |-> <<"b">>, op |-> <<"=">>, literal |-> <<>>, wellformed |-> FALSE,
       condition |-> Condition(<<"b">>, "Equals", ValueString(<<>>))] }

ConditionTokens(c) ==
    <<Word(c.column), Word(c.op)>> \o (IF c.literal = <<>> THEN <<>> ELSE <<Word(c.literal)>>)

WhereTokens(conds) ==
    IF conds = <<>> THEN <<>>
    ELSE <<Keyword(WHERE)>>
         \o SeparatedBy([k \in 1..Len(conds) |-> ConditionTokens(conds[k])], Keyword(AND))

SelectStatements ==
    { Statement("select", "", TableName, cols, <<>>, <<>>, conds) :
        cols \in SelectLists,
        conds \in SeqsUpTo(ConditionDefs, MaxConditions) }

SelectTokens(s) ==
    <<Keyword(SELECT)>>
    \o (IF s.columns = <<>> THEN <<Word(<<"*">>)>> ELSE Names(s.columns))
    \o <<Keyword(FROM), Word(s.table)>> \o WhereTokens(s.items)

\* ALTER TABLE with a clause list; the last clause definition names a
\* column type that does not exist
ClauseDefs ==
    { [tokens |-> <<Keyword(ADD), Word(<<"a">>), Keyword(INT)>>, wellformed |-> TRUE,
       expands |-> <<AddColumn(<<"a">>, "Int")>>],
      [tokens |-> <<Keyword(ADD), Open, Word(<<"a">>), Keyword(INT), Comma,
                    Word(<<"b">>), Keyword(TEXT), Close>>, wellformed |-> TRUE,
       expands |-> <<AddColumn(<<"a">>, "Int"), AddColumn(<<"b">>, "Text")>>],
      [tokens |-> <<Keyword(DROP), Word(<<"a">>)>>, wellformed |-> TRUE,
       expands |-> <<DropColumn(<<"a">>)>>],
      [tokens |-> <<Keyword(DROP), Open, Word(<<"b">>), Comma, Word(<<"a">>), Close>>,
       wellformed |-> TRUE,
       expands |-> <<DropColumn(<<"b">>), DropColumn(<<"a">>)>>],
      [tokens |-> <<Keyword(ADD), Word(<<"a">>), Word(<<"V","A","R","C","H","A","R">>)>>,
       wellformed |-> FALSE, expands |-> <<>>] }

AlterStatements ==
    { Statement("alter", "", TableName, <<>>, <<>>, <<>>, clauses) :
        clauses \in SeqsUpTo(ClauseDefs, MaxClauses) }

AlterTokens(s) ==
    <<Keyword(ALTER_TABLE), Word(s.table)>>
    \o SeparatedBy([k \in 1..Len(s.items) |-> s.items[k].tokens], Comma)

\* DROP TABLE with table names of every shape the identifier rule admits
Identifiers ==
    { <<"t">>, <<"T","_","x">>, <<"_","_">>, <<"f","r","o","m">>, <<"t","a","b","l","e","s">> }

DropStatements ==
    { Statement("drop", "", table, <<>>, <<>>, <<>>, <<>>) : table \in Identifiers }

DropTokens(s) == <<Keyword(DROP_TABLE), Word(s.table)>>

\* texts that are none of the statements above
OtherTexts ==
    { <<>>,
      <<Word(<<"T","R","U","N","C","A","T","E">>), Word(<<"t">>)>>,
      <<Word(<<"I","N","S","E","R","T">>), Word(<<"t">>), Open, Word(<<"a">>), Close>>,
      <<Word(<<"i","n","s","e","r","t">>)>>,
      <<Word(<<"C","R","E","A","T","E">>), Word(<<"t">>)>>,
      <<Word(<<"T","A","B","L","E">>), Word(<<"t">>)>>,
      <<Word(<<"S","E","L","E","C">>), Word(<<"*">>), Keyword(FROM), Word(<<"t">>)>>,
      <<Open, Keyword(SELECT), Word(<<"*">>), Keyword(FROM), Word(<<"t">>), Close>>,
      <<Word(<<"1">>), Keyword(UPDATE)>>,
      <<Word(<<"U","P","D","A","T","E">>), Word(<<"t">>)>>,
      <<Word(<<"D","e","l","e","t","e">>), Word(<<"a">>)>>,
      <<Word(<<"I","N","S","E","R","T"," ","I","N","T","O">>), Word(<<"t">>)>> }

OtherStatements ==
    { Statement("other", "", <<>>, <<>>, <<>>, <<>>, text) : text \in OtherTexts }

(***************************************************************************)
(* The data manipulation statements given to the parser                    *)
(***************************************************************************)
\* the contiguous runs of at most n elements of a sequence
Windows(seq, n) ==
    { SubSeq(seq, w[1], w[1] + w[2] - 1) :
        w \in {v \in (1..Len(seq)) \X (0..n) : v[1] + v[2] - 1 <= Len(seq)} }

\* the value literals, each with the Value it denotes; the boolean
\* literals are keywords, written in the letter case of the style
ValueDefs ==
    << [token |-> Word(<<"1", "0">>), value |-> ValueInteger(10)],
       [token |-> Word(<<"3", "0", ".", "6", "5">>),
        value |-> ValueFloat(FALSE, <<"3", "0">>, <<"6", "5">>)],
       [token |-> Word(<<"'", "b", "o", "o", "k", "'">>),
        value |-> ValueString(<<"b", "o", "o", "k">>)],
       [token |-> Keyword(TRUE_KW), value |-> ValueBool(TRUE)],
       [token |-> Word(<<"-", "5">>), value |-> ValueInteger(0 - 5)],
       [token |-> Keyword(FALSE_KW), value |-> ValueBool(FALSE)],
       [token |-> Word(<<"-", "0", ".", "5", "0">>),
        value |-> ValueFloat(TRUE, <<"0">>, <<"5">>)],
       [token |-> Word(<<"'", "1", ".", "5", " ", "x", "'">>),
        value |-> ValueString(<<"1", ".", "5", " ", "x">>)] >>

ValueLists == Windows(ValueDefs, MaxValues) \ {<<>>}

IsBoolDef(v) == v.value.variant = "Bool"

\* the conditions of a WHERE chain: every comparator and every kind of value
WhereDef(column, op, operator, v) ==
    [tokens |-> <<Word(column), Word(op), v.token>>,
     condition |-> Condition(column, operator, v.value),
     bool |-> IsBoolDef(v)]

WhereDefs ==
    << WhereDef(<<"a">>, <<"=">>, "Equals", ValueDefs[1]),
       WhereDef(<<"b">>, <<">", "=">>, "GreaterOrEquals", ValueDefs[2]),
       WhereDef(<<"c">>, <<"!", "=">>, "NotEquals", ValueDefs[3]),
       WhereDef(<<"d">>, <<"=">>, "Equals", ValueDefs[4]),
       WhereDef(<<"a">>, <<"<">>, "Less", ValueDefs[5]),
       WhereDef(<<"b">>, <<"<", "=">>, "LessOrEquals", ValueDefs[6]),
       WhereDef(<<"c">>, <<">">>, "Greater", ValueDefs[7]) >>

WhereLists == Windows(WhereDefs, MaxConditions)

WhereChain(conds) ==
    IF conds = <<>> THEN <<>>
    ELSE <<Keyword(WHERE)>>
         \o SeparatedBy([k \in 1..Len(conds) |-> conds[k].tokens], Keyword(AND))

\* the SET pairs of an UPDATE: the k-th column is set to the k-th value
\* literal; set_x begins with the letters of SET
AssignedNames ==
    << <<"a">>, <<"s", "e", "t", "_", "x">>, <<"b">>, <<"c">>,
       <<"d">>, <<"e">>, <<"f">>, <<"g">> >>

AssignedLists == Windows(AssignedNames, MaxValues) \ {<<>>}

AssignedValue(name) ==
    ValueDefs[CHOOSE k \in 1..Len(AssignedNames) : AssignedNames[k] = name]

AssignmentTokens(name) == <<Word(name), Word(<<"=">>), AssignedValue(name).token>>

\* the column lists of a DELETE: from_date begins with the letters of FROM
DeleteLists ==
    Windows(<<<<"a">>, <<"f", "r", "o", "m", "_", "d", "a", "t", "e">>, <<"b">>>>,
            MaxColumns)

\* SELECT in the form of section "The statements given to the parser", with
\* every comparator and kind of value in its WHERE chain
DmlSelectStatements ==
    { Statement("select", "dml", TableName, cols, <<>>, <<>>, conds) :
        cols \in SelectLists, conds \in WhereLists }

\* column lists that are not in alphabetical order; from_date begins with
\* the letters of FROM
SelectOrders ==
    Windows(<<<<"b">>, <<"a">>, <<"f", "r", "o", "m", "_", "d", "a", "t", "e">>, <<"d">>>>,
            MaxColumns) \ {<<>>}

\* SELECT <columns> FROM <table> with the columns in these orders
OrderedSelectStatements ==
    { Statement("select", "dml", TableName, cols, <<>>, <<>>, <<>>) : cols \in SelectOrders }

\* SELECT FROM <table>: neither * nor a column list
BareSelectStatements ==
    { Statement("select", "bare", table, <<>>, <<>>, <<>>, <<>>) :
        table \in {<<"t">>, <<"f", "r", "o", "m", "_", "t">>} }

DmlSelectTokens(s) ==
    <<Keyword(SELECT)>>
    \o (IF s.form = "bare" THEN <<>>
        ELSE IF s.columns = <<>> THEN <<Word(<<"*">>)>> ELSE Names(s.columns))
    \o <<Keyword(FROM), Word(s.table)>> \o WhereChain(s.items)

\* INSERT INTO table (columns) VALUES (values): items are the value literals
InsertStatements ==
    { Statement("insert", "dml", TableName, cols, <<>>, <<>>, values) :
        cols \in SelectLists \ {<<>>}, values \in ValueLists }

InsertTokens(s) ==
    <<Keyword(INSERT_INTO), Word(s.table), Open>> \o Names(s.columns)
    \o <<Close, Keyword(VALUES), Open>>
    \o SeparatedBy([k \in 1..Len(s.items) |-> <<s.items[k].token>>], Comma)
    \o <<Close>>

\* UPDATE table SET pairs [WHERE chain]: columns are the columns set
UpdateStatements ==
    { Statement("update", "dml", TableName, cols, <<>>, <<>>, conds) :
        cols \in AssignedLists, conds \in WhereLists }

UpdateTokens(s) ==
    <<Keyword(UPDATE), Word(s.table), Keyword(SET)>>
    \o SeparatedBy([k \in 1..Len(s.columns) |-> AssignmentTokens(s.columns[k])], Comma)
    \o WhereChain(s.items)

\* DELETE [columns] FROM table [WHERE chain]
DeleteStatements ==
    { Statement("delete", "dml", TableName, cols, <<>>, <<>>, conds) :
        cols \in DeleteLists, conds \in WhereLists }

DeleteTokens(s) ==
    <<Keyword(DELETE)>> \o Names(s.columns)
    \o <<Keyword(FROM), Word(s.table)>> \o WhereChain(s.items)

DmlStatements ==
    DmlSelectStatements \cup OrderedSelectStatements \cup BareSelectStatements
    \cup InsertStatements
    \cup UpdateStatements \cup DeleteStatements

Tokens(s) ==
    CASE s.family = "create" -> CreateTokens(s)
      [] s.family = "select" ->
           IF s.form = "" THEN SelectTokens(s) ELSE DmlSelectTokens(s)
      [] s.family = "insert" -> InsertTokens(s)
      [] s.family = "update" -> UpdateTokens(s)
      [] s.family = "delete" -> DeleteTokens(s)
      [] s.family = "alter"  -> AlterTokens(s)
      [] s.family = "drop"   -> DropTokens(s)
      [] s.family = "other"  -> s.items

Statements ==
    CreateStatements \cup SelectStatements \cup AlterStatements
    \cup DropStatements \cup OtherStatements

(***************************************************************************)
(* Writing a statement out: the letter case of its keywords, and the       *)
(* white space between its tokens                                          *)
(***************************************************************************)
Styles ==
    { [kwcase |-> "upper", spacing |-> "tight"], [kwcase |-> "lower", spacing |-> "tight"],
      [kwcase |-> "title", spacing |-> "tight"], [kwcase |-> "upper", spacing |-> "loose"],
      [kwcase |-> "lower_but_pk", spacing |-> "tight"] }

Recase(text, kwcase) ==
    CASE kwcase = "upper" -> [k \in 1..Len(text) |-> to_uppercase(text[k])]
      [] kwcase = "lower" -> [k \in 1..Len(text) |-> to_lowercase(text[k])]
      [] kwcase = "title" ->
           [k \in 1..Len(text) |-> IF k = 1 THEN to_uppercase(text[k])
                                   ELSE to_lowercase(text[k])]

\* lower_but_pk: every keyword in lower case except PRIMARY KEY
TokenText(token, kwcase) ==
    IF ~token.keyword THEN token.text
    ELSE IF kwcase = "lower_but_pk"
    THEN (IF token.text = PRIMARY_KEY THEN token.text ELSE Recase(token.text, "lower"))
    ELSE Recase(token.text, kwcase)

\* tight: one space between tokens, none before a comma or a closing
\* parenthesis nor after an opening one; loose: a space and a newline
\* before every token
Gap(tokens, k, spacing) ==
    IF spacing = "loose" THEN <<" ", "\n">>
    ELSE IF k = 1 \/ tokens[k] \in {Comma, Close} \/ tokens[k - 1] = Open THEN <<>>
    ELSE <<" ">>

RECURSIVE RenderFrom(_, _, _)
RenderFrom(tokens, k, style) ==
    IF k > Len(tokens) THEN <<>>
    ELSE Gap(tokens, k, style.spacing) \o TokenText(tokens[k], style.kwcase)
         \o RenderFrom(tokens, k + 1, style)

\* the token list without its k-th token (k = 0: the whole list)
RemoveAt(tokens, k) ==
    IF k = 0 THEN tokens ELSE SubSeq(tokens, 1, k - 1) \o SubSeq(tokens, k + 1, Len(tokens))

Render(s, st, k) == RenderFrom(RemoveAt(Tokens(s), k), 1, st)

PlainStyle == [kwcase |-> "upper", spacing |-> "tight"]

(***************************************************************************)
(* The state machine: a statement text is handed to one of the parser's    *)
(* entry points, which returns its result.                                 *)
(***************************************************************************)
\* stmt, style, dropped: the statement, how it is written, and which of
\* its tokens was left out (0: none); query: its text; entry: the entry
\* point called on it (none yet: "none"); result: what the call returned;
\* calls: the calls of parse_query in progress, by caller; builder: the
\* builder of builder.rs under construction
VARIABLES stmt, style, dropped, query, entry, result, calls, builder

vars == <<stmt, style, dropped, query, entry, result, calls, builder>>

NoResult == [tag |-> "None", value |-> [error |-> "None", msg |-> "", query |-> <<>>]]

\* no concurrent caller and no builder
NoCalls == <<>>

NoBuilder == [type |-> "none"]

Init ==
    /\ stmt \in Statements
    /\ style \in Styles
    /\ dropped \in 0..Len(Tokens(stmt))
    /\ dropped # 0 => style = PlainStyle
    /\ query = Render(stmt, style, dropped)
    /\ entry = "none"
    /\ result = NoResult
    /\ calls = NoCalls
    /\ builder = NoBuilder

Call(name, res) ==
    /\ entry = "none"
    /\ entry' = name
    /\ result' = res
    /\ UNCHANGED <<stmt, style, dropped, query, calls, builder>>

ParseQuery == Call("parse_query", parse_query(query))

ParseCreateTableQuery == Call("parse_create_table_query", parse_create_table_query(query))

ParseAlterTableQuery == Call("parse_alter_table_query", parse_alter_table_query(query))

ParseDropTableQuery == Call("parse_drop_table_query", parse_drop_table_query(query))

Next ==
    \/ ParseQuery
    \/ ParseCreateTableQuery
    \/ ParseAlterTableQuery
    \/ ParseDropTableQuery

Spec == Init /\ [][Next]_vars

(***************************************************************************)
(* The same state machine on the data manipulation statements and the      *)
(* entry points of dml_parser.rs                                           *)
(***************************************************************************)
InitDml ==
    /\ stmt \in DmlStatements
    /\ style \in Styles
    /\ dropped \in 0..Len(Tokens(stmt))
    /\ dropped # 0 => style = PlainStyle
    /\ query = Render(stmt, style, dropped)
    /\ entry = "none"
    /\ result = NoResult
    /\ calls = NoCalls
    /\ builder = NoBuilder

ParseSelectQuery == Call("parse_select_query", parse_select_query(query))

ParseInsert == Call("parse_insert", parse_insert(query))

ParseUpdate == Call("parse_update", parse_update(query))

ParseDelete == Call("parse_delete", parse_delete(query))

\* parse_query of query_processor/dml_parser.rs
ProcessorParseQuery == Call("query_processor::parse_query", processor_parse_query(query))

NextDml ==
    \/ ParseQuery
    \/ ProcessorParseQuery
    \/ ParseSelectQuery
    \/ ParseInsert
    \/ ParseUpdate
    \/ ParseDelete

SpecDml == InitDml /\ [][NextDml]_vars

TypeOK ==
    /\ entry \in {"none", "parse_query", "parse_create_table_query",
                  "parse_alter_table_query", "parse_drop_table_query",
                  "parse_select_query", "parse_insert", "parse_update", "parse_delete",
                  "query_processor::parse_query", "build"}
    /\ result.tag \in {"None", "Ok", "Err", "Panic", "Returned"}
    /\ (entry = "none") = (result = NoResult)

(***************************************************************************)
(* What a statement description says the statement is                      *)
(***************************************************************************)
WellFormedCreate(s) ==
    /\ s.family = "create"
    /\ Len(s.columns) >= 1
    /\ \/ s.form = "single"
       \/ s.form = "flat" /\ Len(s.partition) >= 1
       \/ s.form = "nested" /\ Len(s.partition) >= 1 /\ Len(s.clustering) >= 1

WellFormedAlter(s) ==
    /\ s.family = "alter"
    /\ Len(s.items) >= 1
    /\ \A k \in 1..Len(s.items) : s.items[k].wellformed

WellFormedSelect(s) ==
    /\ s.family = "select"
    /\ \A k \in 1..Len(s.items) : s.items[k].wellformed

WellFormed(s) ==
    WellFormedCreate(s) \/ WellFormedAlter(s) \/ WellFormedSelect(s) \/ s.family = "drop"

\* a clause of the statement is malformed, after a leading keyword
HasMalformedClause(s) ==
    /\ s.family \in {"select", "alter"}
    /\ \E k \in 1..Len(s.items) : ~s.items[k].wellformed

DeclaredColumns(s) ==
    [k \in 1..Len(s.columns) |-> Column(s.columns[k].name, s.columns[k].column_type)]

IsCreateTable(r) == r.tag = "Ok" /\ r.value.node = "CreateTable"

\* the text begins, after white space and in any letter case, with lit
BeginsWith(text, lit) == run_tag_no_case(lit, skip_multispace(text)).ok

LeadingKeywords ==
    {SELECT, INSERT_INTO, UPDATE, DELETE, CREATE_TABLE, ALTER_TABLE, DROP_TABLE}

BeginsWithLeadingKeyword(text) == \E lit \in LeadingKeywords : BeginsWith(text, lit)

\* the result of an entry point on a text
Run(name, text) ==
    CASE name = "parse_query"              -> parse_query(text)
      [] name = "parse_create_table_query" -> parse_create_table_query(text)
      [] name = "parse_alter_table_query"  -> parse_alter_table_query(text)
      [] name = "parse_drop_table_query"   -> parse_drop_table_query(text)
      [] name = "parse_select_query"       -> parse_select_query(text)
      [] name = "parse_insert"             -> parse_insert(text)
      [] name = "parse_update"             -> parse_update(text)
      [] name = "parse_delete"             -> parse_delete(text)
      [] name = "query_processor::parse_query" -> processor_parse_query(text)

(***************************************************************************)
(* The same state machine on the valid statements of every family, written *)
(* with additional white space between their words                         *)
(***************************************************************************)
\* the position of the first space of a text (0: none)
SpaceIn(text) ==
    IF \E k \in 1..Len(text) : text[k] = " "
    THEN CHOOSE k \in 1..Len(text) : text[k] = " " /\ \A j \in 1..(k - 1) : text[j] # " "
    ELSE 0

RECURSIVE SplitKeywords(_)
\* the token list with every two-word keyword as two tokens
SplitKeywords(tokens) ==
    IF tokens = <<>> THEN <<>>
    ELSE IF Head(tokens).keyword /\ SpaceIn(Head(tokens).text) # 0
    THEN <<Keyword(SubSeq(Head(tokens).text, 1, SpaceIn(Head(tokens).text) - 1)),
           Keyword(SubSeq(Head(tokens).text, SpaceIn(Head(tokens).text) + 1,
                          Len(Head(tokens).text)))>>
         \o SplitKeywords(Tail(tokens))
    ELSE <<Head(tokens)>> \o SplitKeywords(Tail(tokens))

\* the white space added before every word, the first one included; split:
\* also between the two words of a keyword
LayoutStyles ==
    [kwcase : {"upper", "lower"}, spacing : {"spaces", "tabs", "newlines"},
     split : BOOLEAN]

Added(spacing) ==
    CASE spacing = "spaces"   -> <<" ", " ">>
      [] spacing = "tabs"     -> <<"\t">>
      [] spacing = "newlines" -> <<"\r", "\n">>

RECURSIVE LayoutFrom(_, _, _)
LayoutFrom(tokens, k, st) ==
    IF k > Len(tokens) THEN <<>>
    ELSE Gap(tokens, k, "tight") \o Added(st.spacing) \o TokenText(tokens[k], st.kwcase)
         \o LayoutFrom(tokens, k + 1, st)

RenderLayout(s, st) ==
    LayoutFrom(IF st.split THEN SplitKeywords(Tokens(s)) ELSE Tokens(s), 1, st)

\* the statement as first written: one space between its words
Original(s, st) == Render(s, [kwcase |-> st.kwcase, spacing |-> "tight"], 0)

InitLayout ==
    /\ \/ stmt \in {s \in Statements : WellFormed(s)}
       \/ stmt \in {s \in DmlStatements : s.form = "dml"}
    /\ style \in LayoutStyles
    /\ dropped = 0
    /\ query = RenderLayout(stmt, style)
    /\ entry = "none"
    /\ result = NoResult
    /\ calls = NoCalls
    /\ builder = NoBuilder

NextLayout ==
    \/ ParseQuery
    \/ ParseSelectQuery
    \/ ParseInsert
    \/ ParseUpdate
    \/ ParseDelete
    \/ ParseCreateTableQuery
    \/ ParseAlterTableQuery
    \/ ParseDropTableQuery

SpecLayout == InitLayout /\ [][NextLayout]_vars

(***************************************************************************)
(* The same state machine on statements that end with their table name,    *)
(* written with more text after it                                         *)
(***************************************************************************)
\* texts that begin with neither a letter, an underscore nor white space
Trailers ==
    { <<";">>,
      <<",", " ", "x">>,
      <<"1">>,
      <<"(", "a", ")">>,
      <<"=", " ", "1">>,
      <<";", " ", "W", "H", "E", "R", "E", " ", "a", " ", "=", " ", "1">> }

TrailingStyles ==
    [kwcase : {"upper", "lower"}, spacing : {"tight", "loose"}, trailer : Trailers]

\* the statement as written, without the text after it
Complete(s, st) == Render(s, st, 0)

InitTrailing ==
    /\ \/ stmt \in {s \in DmlStatements : /\ s.family \in {"select", "delete"}
                                          /\ s.form = "dml" /\ s.items = <<>>}
       \/ stmt \in DropStatements
    /\ style \in TrailingStyles
    /\ dropped = 0
    /\ query = Complete(stmt, style) \o style.trailer
    /\ entry = "none"
    /\ result = NoResult
    /\ calls = NoCalls
    /\ builder = NoBuilder

NextTrailing ==
    \/ ParseQuery
    \/ ParseSelectQuery
    \/ ParseDelete
    \/ ParseDropTableQuery

SpecTrailing == InitTrailing /\ [][NextTrailing]_vars

(***************************************************************************)
(* builder.rs: the builders of the nodes.  One builder is followed from    *)
(* new() through its setters to build(); an Option field is <<>> (None) or *)
(* <<x>> (Some(x)), a Vec field is a sequence                              *)
(***************************************************************************)
MaxPushed == 2

None == <<>>

Some(x) == <<x>>

\* Option::expect on Some(x) is x; on None it panics, which the build
\* definitions below decide before they take the value
expect(option) == option[1]

\* what build() hands back: the node itself, not a Result
Returned(node) == [tag |-> "Returned", value |-> node]

BuilderNames == {<<"a">>, <<"b">>}

BuilderTables == {TableName}

BuilderColumnTypes == {"Int", "Text"}

BuilderOperators == {"Equals", "Greater"}

BuilderValues == {ValueInteger(1), ValueString(<<"x">>)}

BuilderAssignments == {<<<<"a">>, ValueInteger(1)>>, <<<<"b">>, ValueString(<<"x">>)>>}

BuilderConditions ==
    {Condition(<<"a">>, "Equals", ValueInteger(1)),
     Condition(<<"b">>, "Greater", ValueString(<<"x">>))}

\* a builder of one type with every field unset; the fields a type does
\* not have stay unset
EmptyBuilder(type) ==
    [type |-> type, columns |-> <<>>, table |-> None, conditions |-> <<>>,
     values |-> <<>>, column_name |-> None, column_type |-> None,
     column |-> None, operator |-> None, value |-> None]

\* T::new()
BuilderNew(type) ==
    /\ builder = NoBuilder
    /\ builder' = EmptyBuilder(type)
    /\ UNCHANGED <<stmt, style, dropped, query, entry, result, calls>>

\* self.field = Some(x)
BuilderSet(type, field, x) ==
    /\ builder.type = type
    /\ entry = "none"
    /\ builder' = [builder EXCEPT ![field] = Some(x)]
    /\ UNCHANGED <<stmt, style, dropped, query, entry, result, calls>>

\* self.field.push(x)
BuilderPush(type, field, x) ==
    /\ builder.type = type
    /\ entry = "none"
    /\ Len(builder[field]) < MaxPushed
    /\ builder' = [builder EXCEPT ![field] = Append(@, x)]
    /\ UNCHANGED <<stmt, style, dropped, query, entry, result, calls>>

\* self.field.extend(xs)
BuilderExtend(type, field, xs) ==
    /\ builder.type = type
    /\ entry = "none"
    /\ Len(builder[field]) + Len(xs) <= MaxPushed
    /\ builder' = [builder EXCEPT ![field] = @ \o xs]
    /\ UNCHANGED <<stmt, style, dropped, query, entry, result, calls>>

\* build(self) consumes the builder
BuilderBuild(type, res) ==
    /\ builder.type = type
    /\ entry = "none"
    /\ entry' = "build"
    /\ result' = res
    /\ UNCHANGED <<stmt, style, dropped, query, calls, builder>>

ColumnBuilder_build(b) ==
    IF b.column_name = None \/ b.column_type = None THEN Panic
    ELSE Returned(Column(expect(b.column_name), expect(b.column_type)))

SelectQueryBuilder_build(b) ==
    IF b.table = None THEN Panic
    ELSE Returned(SelectQuery(b.columns, expect(b.table), b.conditions))

InsertQueryBuilder_build(b) ==
    IF b.table = None THEN Panic
    ELSE Returned(InsertQuery(b.columns, expect(b.table), b.values))

UpdateQueryBuilder_build(b) ==
    IF b.table = None THEN Panic
    ELSE Returned(UpdateQuery(expect(b.table), b.values, b.conditions))

DeleteQueryBuilder_build(b) ==
    IF b.table = None THEN Panic
    ELSE Returned(DeleteQuery(b.columns, expect(b.table), b.conditions))

ConditionBuilder_build(b) ==
    IF b.column = None \/ b.operator = None \/ b.value = None THEN Panic
    ELSE Returned(Condition(expect(b.column), expect(b.operator), expect(b.value)))

ColumnBuilderNew == BuilderNew("ColumnBuilder")

ColumnBuilderName == \E name \in BuilderNames : BuilderSet("ColumnBuilder", "column_name", name)

ColumnBuilderColumnType ==
    \E column_type \in BuilderColumnTypes :
        BuilderSet("ColumnBuilder", "column_type", column_type)

ColumnBuilderBuild == BuilderBuild("ColumnBuilder", ColumnBuilder_build(builder))

SelectQueryBuilderNew == BuilderNew("SelectQueryBuilder")

SelectQueryBuilderColumn ==
    \E column \in BuilderNames : BuilderPush("SelectQueryBuilder", "columns", column)

SelectQueryBuilderColumns ==
    \E columns \in SeqsUpTo(BuilderNames, MaxPushed) :
        BuilderExtend("SelectQueryBuilder", "columns", columns)

SelectQueryBuilderTable ==
    \E table \in BuilderTables : BuilderSet("SelectQueryBuilder", "table", table)

SelectQueryBuilderCondition ==
    \E column \in BuilderConditions : BuilderPush("SelectQueryBuilder", "conditions", column)

SelectQueryBuilderConditions ==
    \E conditions \in SeqsUpTo(BuilderConditions, MaxPushed) :
        BuilderExtend("SelectQueryBuilder", "conditions", conditions)

SelectQueryBuilderBuild ==
    BuilderBuild("SelectQueryBuilder", SelectQueryBuilder_build(builder))

InsertQueryBuilderNew == BuilderNew("InsertQueryBuilder")

InsertQueryBuilderColumn ==
    \E column \in BuilderNames : BuilderPush("InsertQueryBuilder", "columns", column)

InsertQueryBuilderColumns ==
    \E columns \in SeqsUpTo(BuilderNames, MaxPushed) :
        BuilderExtend("InsertQueryBuilder", "columns", columns)

InsertQueryBuilderTable ==
    \E table \in BuilderTables : BuilderSet("InsertQueryBuilder", "table", table)

InsertQueryBuilderValue ==
    \E value \in BuilderValues : BuilderPush("InsertQueryBuilder", "values", value)

InsertQueryBuilderValues ==
    \E values \in SeqsUpTo(BuilderValues, MaxPushed) :
        BuilderExtend("InsertQueryBuilder", "values", values)

InsertQueryBuilderBuild ==
    BuilderBuild("InsertQueryBuilder", InsertQueryBuilder_build(builder))

UpdateQueryBuilderNew == BuilderNew("UpdateQueryBuilder")

UpdateQueryBuilderValue ==
    \E value \in BuilderAssignments : BuilderPush("UpdateQueryBuilder", "values", value)

UpdateQueryBuilderValues ==
    \E values \in SeqsUpTo(BuilderAssignments, MaxPushed) :
        BuilderExtend("UpdateQueryBuilder", "values", values)

UpdateQueryBuilderTable ==
    \E table \in BuilderTables : BuilderSet("UpdateQueryBuilder", "table", table)

UpdateQueryBuilderCondition ==
    \E column \in BuilderConditions : BuilderPush("UpdateQueryBuilder", "conditions", column)

UpdateQueryBuilderConditions ==
    \E conditions \in SeqsUpTo(BuilderConditions, MaxPushed) :
        BuilderExtend("UpdateQueryBuilder", "conditions", conditions)

UpdateQueryBuilderBuild ==
    BuilderBuild("UpdateQueryBuilder", UpdateQueryBuilder_build(builder))

DeleteQueryBuilderNew == BuilderNew("DeleteQueryBuilder")

DeleteQueryBuilderColumn ==
    \E column \in BuilderNames : BuilderPush("DeleteQueryBuilder", "columns", column)

DeleteQueryBuilderColumns ==
    \E columns \in SeqsUpTo(BuilderNames, MaxPushed) :
        BuilderExtend("DeleteQueryBuilder", "columns", columns)

DeleteQueryBuilderTable ==
    \E table \in BuilderTables : BuilderSet("DeleteQueryBuilder", "table", table)

DeleteQueryBuilderCondition ==
    \E condition \in BuilderConditions :
        BuilderPush("DeleteQueryBuilder", "conditions", condition)

DeleteQueryBuilderConditions ==
    \E condition \in SeqsUpTo(BuilderConditions, MaxPushed) :
        BuilderExtend("DeleteQueryBuilder", "conditions", condition)

DeleteQueryBuilderBuild ==
    BuilderBuild("DeleteQueryBuilder", DeleteQueryBuilder_build(builder))

ConditionBuilderNew == BuilderNew("ConditionBuilder")

ConditionBuilderColumn ==
    \E column \in BuilderNames : BuilderSet("ConditionBuilder", "column", column)

ConditionBuilderOperator ==
    \E operator \in BuilderOperators : BuilderSet("ConditionBuilder", "operator", operator)

ConditionBuilderValue ==
    \E value \in BuilderValues : BuilderSet("ConditionBuilder", "value", value)

ConditionBuilderBuild == BuilderBuild("ConditionBuilder", ConditionBuilder_build(builder))

InitBuilders ==
    /\ stmt = Statement("none", "none", <<>>, <<>>, <<>>, <<>>, <<>>)
    /\ style = PlainStyle
    /\ dropped = 0
    /\ query = <<>>
    /\ entry = "none"
    /\ result = NoResult
    /\ calls = NoCalls
    /\ builder = NoBuilder

NextBuilders ==
    \/ ColumnBuilderNew
    \/ ColumnBuilderName
    \/ ColumnBuilderColumnType
    \/ ColumnBuilderBuild
    \/ SelectQueryBuilderNew
    \/ SelectQueryBuilderColumn
    \/ SelectQueryBuilderColumns
    \/ SelectQueryBuilderTable
    \/ SelectQueryBuilderCondition
    \/ SelectQueryBuilderConditions
    \/ SelectQueryBuilderBuild
    \/ InsertQueryBuilderNew
    \/ InsertQueryBuilderColumn
    \/ InsertQueryBuilderColumns
    \/ InsertQueryBuilderTable
    \/ InsertQueryBuilderValue
    \/ InsertQueryBuilderValues
    \/ InsertQueryBuilderBuild
    \/ UpdateQueryBuilderNew
    \/ UpdateQueryBuilderValue
    \/ UpdateQueryBuilderValues
    \/ UpdateQueryBuilderTable
    \/ UpdateQueryBuilderCondition
    \/ UpdateQueryBuilderConditions
    \/ UpdateQueryBuilderBuild
    \/ DeleteQueryBuilderNew
    \/ DeleteQueryBuilderColumn
    \/ DeleteQueryBuilderColumns
    \/ DeleteQueryBuilderTable
    \/ DeleteQueryBuilderCondition
    \/ DeleteQueryBuilderConditions
    \/ DeleteQueryBuilderBuild
    \/ ConditionBuilderNew
    \/ ConditionBuilderColumn
    \/ ConditionBuilderOperator
    \/ ConditionBuilderValue
    \/ ConditionBuilderBuild

SpecBuilders == InitBuilders /\ [][NextBuilders]_vars

(***************************************************************************)
(* parser.rs: parse_query called by several callers at once.  A call is    *)
(* the caller's own frame: its argument, its local query_type and what it  *)
(* returns; the steps of different callers interleave freely               *)
(***************************************************************************)
MaxCallers == 2

Callers == 1..MaxCallers

\* the texts the callers pass: SELECT statements that parse and that do
\* not, a DELETE, an INSERT, a CREATE TABLE and a DROP TABLE
CallerInputs ==
    {Render(s, PlainStyle, 0) : s \in BareSelectStatements}
    \cup {Render(s, PlainStyle, 0) : s \in {o \in OrderedSelectStatements : Len(o.columns) = 1}}
    \cup {Render(s, PlainStyle, 0) : s \in {d \in DropStatements : d.table = TableName}}
    \cup {<<"D", "E", "L", "E", "T", "E", " ", "F", "R", "O", "M", " ", "t">>,
          <<"C", "R", "E", "A", "T", "E", " ", "T", "A", "B", "L", "E", " ", "t",
            " ", "(", "a", " ", "I", "N", "T", " ", "P", "R", "I", "M", "A", "R", "Y",
            " ", "K", "E", "Y", ")">>}

\* a caller that is not inside parse_query
NoCall == [pc |-> "idle", query |-> <<>>, query_type |-> PErr, result |-> NoResult]

\* the query_type local of the call of caller c, as a step of another
\* caller would see it if it were kept in one place for all the calls
query_type_shared(cs, c) == cs[1].query_type

\* the query_type local of the call of caller c
query_type_local(cs, c) == cs[c].query_type

\* parse_query(query) is entered
CallerEnter(c) ==
    /\ calls[c].pc = "idle"
    /\ \E text \in CallerInputs :
        calls' = [calls EXCEPT ![c] = [NoCall EXCEPT !.pc = "get_query_type",
                                                     !.query = text]]
    /\ UNCHANGED <<stmt, style, dropped, query, entry, result, builder>>

\* let query_type = get_query_type(query)?; an Err returns at once
CallerGetQueryType(c) ==
    /\ calls[c].pc = "get_query_type"
    /\ calls' = [calls EXCEPT ![c] =
                    IF get_query_type(@.query).ok
                    THEN [@ EXCEPT !.pc = "match",
                                   !.query_type = get_query_type(calls[c].query)]
                    ELSE [@ EXCEPT !.pc = "returned",
                                   !.result = UnsupportedRequest(calls[c].query)]]
    /\ UNCHANGED <<stmt, style, dropped, query, entry, result, builder>>

\* match query_type { .. }: the sub-parser runs on the query
CallerMatch(c) ==
    /\ calls[c].pc = "match"
    /\ calls' = [calls EXCEPT ![c] =
                    [@ EXCEPT !.pc = "returned",
                              !.result = route(calls[c].query, query_type_local(calls, c))]]
    /\ UNCHANGED <<stmt, style, dropped, query, entry, result, builder>>

\* the caller takes the result; nothing of the call is left
CallerReturn(c) ==
    /\ calls[c].pc = "returned"
    /\ calls' = [calls EXCEPT ![c] = NoCall]
    /\ UNCHANGED <<stmt, style, dropped, query, entry, result, builder>>

InitCallers ==
    /\ stmt = Statement("none", "none", <<>>, <<>>, <<>>, <<>>, <<>>)
    /\ style = PlainStyle
    /\ dropped = 0
    /\ query = <<>>
    /\ entry = "none"
    /\ result = NoResult
    /\ calls = [c \in Callers |-> NoCall]
    /\ builder = NoBuilder

NextCallers ==
    \/ \E c \in Callers : CallerEnter(c)
    \/ \E c \in Callers : CallerGetQueryType(c)
    \/ \E c \in Callers : CallerMatch(c)
    \/ \E c \in Callers : CallerReturn(c)

SpecCallers == InitCallers /\ [][NextCallers]_vars

(***************************************************************************)
(* Claims                                                                  *)
(***************************************************************************)

\* C1: parse_query returns Ok(CreateTable) for every well-formed CREATE
\* TABLE statement and Ok(AlterTable) for every well-formed ALTER TABLE
\* statement.
C1_DispatchesCreateAndAlter ==
    (/\ entry = "parse_query" /\ dropped = 0
     /\ WellFormedCreate(stmt) \/ WellFormedAlter(stmt))
    => /\ result.tag = "Ok"
       /\ result.value.node = (IF stmt.family = "create" THEN "CreateTable" ELSE "AlterTable")

\* C2: parse_query on DROP TABLE <identifier> returns
\* Ok(DropTable{table = <identifier>}), for every identifier.
C2_DispatchesDropTable ==
    (entry = "parse_query" /\ dropped = 0 /\ stmt.family = "drop")
    => result = Ok(DropTableQuery(stmt.table))

\* C3: for every input that does not begin, after white space and in any
\* letter case, with a recognised leading keyword, parse_query returns
\* UnsupportedRequest carrying exactly the raw input.
C3_UnsupportedCarriesRawInput ==
    (entry = "parse_query" /\ ~BeginsWithLeadingKeyword(query))
    => result = UnsupportedRequest(query)

C3_Witness ==
    /\ entry = "parse_query"
    /\ stmt.family = "other" /\ dropped = 0
    /\ style.spacing = "loose"
    /\ BeginsWith(query, <<"T","R","U","N","C","A","T","E">>)
    /\ result = UnsupportedRequest(query)

\* C4: every statement with a recognised leading keyword and a malformed
\* clause is rejected with a QuerySyntaxError, never returned as Ok with
\* the malformed clause dropped.
C4_MalformedClauseRejected ==
    (/\ entry \in {"parse_query", "parse_alter_table_query"}
     /\ dropped = 0
     /\ HasMalformedClause(stmt))
    => /\ result.tag = "Err"
       /\ result.value.error = "QuerySyntaxError"

\* C5: single-PK form: when the first column definition is
\* `name type PRIMARY KEY` and the others are plain pairs, the CREATE TABLE
\* grammar returns partition_key = [first column name], clustering_key = []
\* and all the declared columns in declaration order.
C5_SinglePrimaryKey ==
    (/\ entry = "parse_create_table_query"
     /\ stmt.family = "create" /\ stmt.form = "single" /\ dropped = 0
     /\ style.kwcase \in {"upper", "lower_but_pk"})
    => result = Ok(CreateTableQuery(stmt.table,
                                    PrimaryKey(<<stmt.columns[1].name>>, <<>>),
                                    DeclaredColumns(stmt)))

C5_Witness ==
    /\ entry = "parse_create_table_query"
    /\ stmt.family = "create" /\ stmt.form = "single" /\ dropped = 0
    /\ style.kwcase = "lower_but_pk"
    /\ Len(stmt.columns) = 2
    /\ stmt.columns[1].name # stmt.columns[2].name
    /\ IsCreateTable(result)
    /\ Len(result.value.columns) = 2

\* C6: explicit composite form: PRIMARY KEY ((p1, ..., pn), c1, ..., cm)
\* with n >= 1 and m >= 1 gives partition_key = [p1..pn] and
\* clustering_key = [c1..cm] as written, and the declared columns in order.
C6_NestedPrimaryKey ==
    (/\ entry = "parse_create_table_query"
     /\ dropped = 0 /\ WellFormedCreate(stmt) /\ stmt.form = "nested")
    => result = Ok(CreateTableQuery(stmt.table,
                                    PrimaryKey(stmt.partition, stmt.clustering),
                                    DeclaredColumns(stmt)))

C6_Witness ==
    /\ entry = "parse_create_table_query"
    /\ dropped = 0 /\ WellFormedCreate(stmt) /\ stmt.form = "nested"
    /\ Len(stmt.partition) = 2 /\ stmt.partition[1] # stmt.partition[2]
    /\ stmt.clustering # stmt.partition
    /\ IsCreateTable(result)
    /\ result.value.primary_key.partition_key = stmt.partition

\* C7: flat composite form: PRIMARY KEY (k1, ..., kn) with n >= 1 gives
\* partition_key = [k1] and clustering_key = [k2..kn] as written.
C7_FlatPrimaryKey ==
    (/\ entry = "parse_create_table_query"
     /\ dropped = 0 /\ WellFormedCreate(stmt) /\ stmt.form = "flat")
    => /\ IsCreateTable(result)
       /\ result.value.primary_key =
            PrimaryKey(<<Head(stmt.partition)>>, Tail(stmt.partition))

C7_Witness ==
    /\ entry = "parse_create_table_query"
    /\ dropped = 0 /\ WellFormedCreate(stmt) /\ stmt.form = "flat"
    /\ Len(stmt.partition) = 2 /\ stmt.partition[1] # stmt.partition[2]
    /\ IsCreateTable(result)
    /\ result.value.primary_key.clustering_key = <<stmt.partition[2]>>

\* C8: every successful CREATE TABLE parse, on any input, has a non-empty
\* partition_key and a non-empty columns sequence, and remove(0) never
\* runs on an empty key list (the parse never panics).
C8_KeyAndColumnsNonEmpty ==
    /\ IsCreateTable(result) =>
         /\ Len(result.value.primary_key.partition_key) >= 1
         /\ Len(result.value.columns) >= 1
    /\ entry = "parse_create_table_query" => result.tag # "Panic"

C8_Witness ==
    /\ entry = "parse_create_table_query"
    /\ stmt.family = "create" /\ stmt.form = "flat" /\ dropped = 0
    /\ stmt.partition = <<>> /\ stmt.columns # <<>>
    /\ result.tag = "Err"

\* C9: in every PrimaryKey of a successful CREATE TABLE parse no column
\* name appears in both partition_key and clustering_key.
C9_KeysDisjoint ==
    IsCreateTable(result) =>
        LET pk == result.value.primary_key
        IN  \A i \in 1..Len(pk.partition_key), j \in 1..Len(pk.clustering_key) :
               pk.partition_key[i] # pk.clustering_key[j]

\* two results are the same outcome: the same AST, or the same error kind
\* and message (an error also carries the text it was raised on, which
\* differs with the spelling of the input)
SameOutcome(r1, r2) ==
    /\ r1.tag = r2.tag
    /\ r1.tag = "Ok" => r1.value = r2.value
    /\ r1.tag # "Ok" => r1.value.error = r2.value.error /\ r1.value.msg = r2.value.msg

\* C10: changing the letter case of the keywords of a valid statement
\* leaves the parse result unchanged.
C10_KeywordCaseInsensitive ==
    (entry # "none" /\ dropped = 0 /\ WellFormed(stmt))
    => SameOutcome(result, Run(entry, Render(stmt, [style EXCEPT !.kwcase = "upper"], 0)))

(***************************************************************************)
(* What a data manipulation statement description says the statement is    *)
(***************************************************************************)
\* the entry point of dml_parser.rs for the family of a statement
OwnEntry(s) ==
    CASE s.family = "select" -> "parse_select_query"
      [] s.family = "insert" -> "parse_insert"
      [] s.family = "update" -> "parse_update"
      [] s.family = "delete" -> "parse_delete"

\* the statement is handed, whole, to its own entry point or to parse_query
CalledOnWhole == dropped = 0 /\ entry \in {"parse_query", OwnEntry(stmt)}

WrittenConditions(s) == [k \in 1..Len(s.items) |-> s.items[k].condition]

WrittenValues(s) == [k \in 1..Len(s.items) |-> s.items[k].value]

WrittenAssignments(s) ==
    [k \in 1..Len(s.columns) |-> <<s.columns[k], AssignedValue(s.columns[k]).value>>]

\* the AST the statement denotes
Denotes(s) ==
    CASE s.family = "select" -> SelectQuery(s.columns, s.table, WrittenConditions(s))
      [] s.family = "insert" -> InsertQuery(s.columns, s.table, WrittenValues(s))
      [] s.family = "update" ->
           UpdateQuery(s.table, WrittenAssignments(s), WrittenConditions(s))
      [] s.family = "delete" -> DeleteQuery(s.columns, s.table, WrittenConditions(s))

\* a boolean literal is written in a condition of the WHERE chain
BoolInWhere(s) ==
    s.family \in {"select", "update", "delete"} /\ \E k \in 1..Len(s.items) : s.items[k].bool

\* a boolean literal is written in the VALUES list or in a SET pair
BoolInValues(s) ==
    \/ s.family = "insert" /\ \E k \in 1..Len(s.items) : IsBoolDef(s.items[k])
    \/ s.family = "update" /\ \E k \in 1..Len(s.columns) : IsBoolDef(AssignedValue(s.columns[k]))

IsQuerySyntaxError(r) == r.tag = "Err" /\ r.value.error = "QuerySyntaxError"

IsSuffix(rest, text) ==
    Len(rest) <= Len(text) /\ rest = SubSeq(text, Len(text) - Len(rest) + 1, Len(text))

\* the text of a SELECT statement from its first malformed condition on
FirstMalformed(s) == CHOOSE k \in 1..Len(s.items) :
    ~s.items[k].wellformed /\ \A j \in 1..(k - 1) : s.items[j].wellformed

FromFirstMalformed(s, st) ==
    RenderFrom(SeparatedBy([k \in FirstMalformed(s)..Len(s.items) |->
                              ConditionTokens(s.items[k])], Keyword(AND)),
               1, [st EXCEPT !.spacing = "tight"])

\* C11: for every valid statement, additional spaces, tabs or newlines
\* between any two adjacent words (the two words of INSERT INTO,
\* CREATE TABLE, ALTER TABLE, DROP TABLE and PRIMARY KEY included, and
\* before the first word) give the same AST as the original statement.
C11_WhitespaceInsensitive ==
    (entry # "none" /\ Run(entry, Original(stmt, style)).tag = "Ok")
    => result = Run(entry, Original(stmt, style))

\* C12: every QuerySyntaxError carries the input left unconsumed where the
\* grammar failed: a suffix of the input that begins at the first element
\* that could not be matched (here: no earlier than the first malformed
\* condition of a WHERE chain), not at the beginning of the enclosing clause.
C12_ErrorCarriesFailurePoint ==
    (/\ entry = "parse_query" /\ dropped = 0
     /\ stmt.family = "select" /\ HasMalformedClause(stmt)
     /\ IsQuerySyntaxError(result))
    => /\ IsSuffix(result.value.query, query)
       /\ Len(result.value.query) <= Len(FromFirstMalformed(stmt, style))

\* C13: parse_query is total: on every input it returns Ok(Query) or
\* Err(UnsupportedRequest | QuerySyntaxError), and never panics.
C13_ParseQueryTotal ==
    entry = "parse_query"
    => \/ result.tag = "Ok" /\ result.value.kind \in {"DataManipulationQuery",
                                                      "DataDefinitionQuery"}
       \/ result.tag = "Err" /\ result.value.error \in {"UnsupportedRequest",
                                                        "QuerySyntaxError"}

C13_Witness ==
    /\ entry = "parse_query"
    /\ stmt.family = "select" /\ dropped = Len(Tokens(stmt)) /\ stmt.items # <<>>
    /\ IsQuerySyntaxError(result)
    /\ result.value.msg = "an error occurred while parsing where condition"

\* C14: a SELECT statement with neither * nor a column list between SELECT
\* and FROM is rejected with the QuerySyntaxError that reports the missing
\* column list or *, and is never accepted as a Select node.
C14_BareSelectRejected ==
    (CalledOnWhole /\ stmt.family = "select" /\ stmt.form = "bare")
    => /\ IsQuerySyntaxError(result)
       /\ result.value.msg = "expected the column names or *"

\* C15: the conditions of an ALTER TABLE statement are the concatenation, in
\* source order across the clauses and within each parenthesised list, of
\* one AddColumn per added column and one DropColumn per dropped column.
C15_AlterExpansion ==
    (entry = "parse_alter_table_query" /\ dropped = 0 /\ WellFormedAlter(stmt))
    => result = Ok(AlterTableQuery(stmt.table,
                     flatten([k \in 1..Len(stmt.items) |-> stmt.items[k].expands])))

C15_Witness ==
    /\ entry = "parse_alter_table_query" /\ dropped = 0 /\ WellFormedAlter(stmt)
    /\ Len(stmt.items) = 2
    /\ Len(stmt.items[1].expands) = 2 /\ stmt.items[1].expands[1].condition = "AddColumn"
    /\ stmt.items[2].expands[1].condition = "DropColumn"
    /\ result.tag = "Ok"
    /\ Len(result.value.conditions) >= 3

\* C16: every successful ALTER TABLE parse has a non-empty conditions
\* sequence: a statement with no clause, or whose first clause does not
\* parse, is rejected.
C16_AlterConditionsNonEmpty ==
    (result.tag = "Ok" /\ result.value.node = "AlterTable")
    => Len(result.value.conditions) >= 1

\* C17: DELETE FROM t gives Delete{columns = [], table = t}, and
\* DELETE c1, ..., cn FROM t gives Delete{columns = [c1..cn], table = t} for
\* every list of identifiers, also those that begin with the letters of a
\* keyword.
C17_DeleteDisambiguation ==
    (CalledOnWhole /\ stmt.family = "delete" /\ ~BoolInWhere(stmt))
    => /\ result.tag = "Ok"
       /\ result.value.node = "Delete"
       /\ result.value.columns = stmt.columns
       /\ result.value.table = stmt.table

\* C18: a boolean literal parses to the same Bool value, in every letter
\* case, in a WHERE condition as in a VALUES list or a SET pair.
C18_BooleanCaseInsensitive ==
    (/\ CalledOnWhole /\ stmt.family \in {"select", "insert", "update"}
     /\ stmt.form = "dml"
     /\ BoolInWhere(stmt) \/ BoolInValues(stmt))
    => result = Ok(Denotes(stmt))

\* C19: wherever a value is accepted, a literal of digits parses to Integer,
\* digits "." digits with an optional "-" to Float, a quoted run to String
\* with exactly the characters between the quotes, and TRUE/FALSE to Bool.
C19_ValueLiterals ==
    (/\ CalledOnWhole /\ stmt.family \in {"select", "insert", "update"}
     /\ stmt.form = "dml")
    => result = Ok(Denotes(stmt))

\* C20: in SELECT, UPDATE and DELETE, without a WHERE keyword the conditions
\* sequence is empty and the parse succeeds; with WHERE c1 AND ... AND cn it
\* is [c1..cn] in source order, each with its column, operator and value.
C20_WhereChain ==
    (/\ CalledOnWhole /\ stmt.family \in {"select", "update", "delete"}
     /\ stmt.form = "dml")
    => /\ result.tag = "Ok"
       /\ result.value.conditions = WrittenConditions(stmt)

\* C21: SELECT * FROM t gives Select{columns = [], table = t}, and
\* SELECT c1, ..., cn FROM t gives columns = [c1..cn] in the order written,
\* nothing added, dropped or reordered.
C21_SelectColumnList ==
    (/\ CalledOnWhole /\ stmt.family = "select" /\ stmt.form = "dml"
     /\ stmt.items = <<>>)
    => result = Ok(SelectQuery(stmt.columns, stmt.table, <<>>))

C21_Witness ==
    /\ CalledOnWhole /\ stmt.family = "select" /\ stmt.form = "dml"
    /\ stmt.items = <<>>
    /\ Len(stmt.columns) = 2 /\ stmt.columns[1] = <<"b">> /\ stmt.columns[2] = <<"a">>
    /\ result.tag = "Ok"
    /\ result.value.columns = <<<<"b">>, <<"a">>>>
\* C22: INSERT INTO t (c1, ..., cm) VALUES (v1, ..., vn) with m >= 1 and
\* n >= 1, m # n included, succeeds with columns = [c1..cm] and
\* values = [v1..vn], each in the order written.
C22_InsertNoCardinalityCheck ==
    (CalledOnWhole /\ stmt.family = "insert")
    => result = Ok(InsertQuery(stmt.columns, stmt.table, WrittenValues(stmt)))

C22_Witness ==
    /\ CalledOnWhole /\ stmt.family = "insert"
    /\ Len(stmt.columns) = 1 /\ Len(stmt.items) = 2
    /\ result.tag = "Ok"
    /\ Len(result.value.columns) = 1 /\ Len(result.value.values) = 2
\* the boolean literals of the WHERE chain, if any, are in lower case
LowerCaseBooleans(s, st) == ~BoolInWhere(s) \/ st.kwcase \in {"lower", "lower_but_pk"}

WrittenOperators(s) == [k \in 1..Len(s.items) |-> s.items[k].condition.operator]

\* C25: in every condition col op value the parsed operator is the one
\* written: >= gives GreaterOrEquals and <= gives LessOrEquals, never Greater
\* or Less followed by a value that fails to parse on "=", and != gives
\* NotEquals.
C25_ComparatorNotTruncated ==
    (/\ CalledOnWhole /\ stmt.family \in {"select", "update"} /\ stmt.form = "dml"
     /\ LowerCaseBooleans(stmt, style))
    => /\ result.tag = "Ok"
       /\ [k \in 1..Len(result.value.conditions) |-> result.value.conditions[k].operator]
            = WrittenOperators(stmt)

C25_Witness ==
    /\ CalledOnWhole /\ stmt.family = "update" /\ stmt.form = "dml"
    /\ LowerCaseBooleans(stmt, style)
    /\ WrittenOperators(stmt) = <<"LessOrEquals", "Greater">>
    /\ result.tag = "Ok"
    /\ result.value.conditions[1].operator = "LessOrEquals"
\* C26: PRIMARY KEY ((p1, ..., pn)) with n >= 1 and no clustering column
\* parses to partition_key = [p1..pn] and clustering_key = [], with no comma
\* required after the inner parenthesis.
C26_PartitionKeyOnly ==
    (/\ entry = "parse_create_table_query" /\ dropped = 0
     /\ stmt.family = "create" /\ stmt.form = "nested"
     /\ Len(stmt.columns) >= 1 /\ Len(stmt.partition) >= 1 /\ stmt.clustering = <<>>)
    => result = Ok(CreateTableQuery(stmt.table, PrimaryKey(stmt.partition, <<>>),
                                    DeclaredColumns(stmt)))
\* C27: in the single-PK form the column definitions must be separated by
\* commas: a statement with no comma between the PRIMARY KEY column and the
\* next column definition, or with a comma followed by no column
\* definition, is rejected with a QuerySyntaxError.
C27_SinglePkCommas ==
    (/\ entry = "parse_create_table_query" /\ dropped = 0
     /\ stmt.family = "create" /\ stmt.form \in {"unseparated", "trailing"})
    => IsQuerySyntaxError(result)
\* C29: the todo!() of parse_alter_table_query is not reachable: the clause
\* list parser returns Ok on every input (possibly an empty list, with input
\* left over), so parse_alter_table_query returns Ok(AlterTable) or
\* Err(QuerySyntaxError) and never panics.
C29_AlterTodoUnreachable ==
    /\ run(parse_alter_table_condition, query).ok
    /\ entry = "parse_alter_table_query"
       => \/ result.tag = "Ok" /\ result.value.node = "AlterTable"
          \/ IsQuerySyntaxError(result)

C29_Witness ==
    /\ entry = "parse_alter_table_query" /\ dropped = 0
    /\ stmt.family = "alter" /\ Len(stmt.items) = 2
    /\ ~stmt.items[1].wellformed
    /\ result = Ok(AlterTableQuery(stmt.table, <<>>))
\* C28: input left after the last grammar element is discarded: when
\* SELECT ... FROM t, DELETE ... FROM t (both without WHERE) or DROP TABLE t
\* parses to an AST at its entry point, the statement followed by a text
\* that begins with neither a letter, an underscore nor white space parses
\* to the same AST.
C28_TrailingInputDiscarded ==
    (entry # "none" /\ Run(entry, Complete(stmt, style)).tag = "Ok")
    => result = Run(entry, Complete(stmt, style))

C28_Witness ==
    /\ entry = "parse_drop_table_query" /\ stmt.family = "drop"
    /\ style.trailer = <<"(", "a", ")">>
    /\ query = Complete(stmt, style) \o <<"(", "a", ")">>
    /\ result = Ok(DropTableQuery(stmt.table))
\* the same error, or the same kind of statement with equal fields; the
\* DataManipulationQuery wrapper of the later version is not compared
SameStatement(r1, r2) ==
    /\ r1.tag = r2.tag
    /\ r1.tag = "Ok" => [r1.value EXCEPT !.kind = ""] = [r2.value EXCEPT !.kind = ""]
    /\ r1.tag # "Ok" => r1.value = r2.value

\* C30: on every input that begins with SELECT, INSERT INTO, UPDATE or
\* DELETE, parse_query of query_processor and parse_query of query_parser
\* both fail with the same error or both succeed with the same kind of
\* statement and equal columns, table, values and conditions, boolean
\* literals of any letter case in VALUES and SET included.
C30_VersionsEquivalent ==
    (/\ entry = "parse_query"
     /\ \E lit \in {SELECT, INSERT_INTO, UPDATE, DELETE} : BeginsWith(query, lit))
    => SameStatement(result, processor_parse_query(query))

RequiredFields(type) ==
    CASE type = "ColumnBuilder"    -> {"column_name", "column_type"}
      [] type = "ConditionBuilder" -> {"column", "operator", "value"}
      [] OTHER                     -> {"table"}

MissingRequired(b) == \E field \in RequiredFields(b.type) : b[field] = None

\* C24: build() on a builder with a required field never set (the table of
\* a query builder, a field of a condition or of a column) reports an error
\* to the caller: it neither panics nor returns a node
C24_BuildReportsMissingField ==
    (entry = "build" /\ MissingRequired(builder)) => result.tag = "Err"

====
